---- MODULE Spec2Model ----
(***************************************************************************)
(* Verification model of the marsh schema dispatch engine:                 *)
(*   - marsh.utils.PriorityOrder              (specification SpecPO)       *)
(*   - marsh.schema.core (registry, resolve)  (specification SpecRS)       *)
(*   - marsh.schema.core with constructors that raise        (SpecCE)      *)
(*   - marsh.schema.namespace (namespaces)    (specification SpecNS)       *)
(*   - marsh.schema.types.namespace (decoding by name)       (SpecND)      *)
(*   - marsh.utils.cache, ValueCache, CachePool              (SpecCA)      *)
(*   - marsh.utils.PriorityOrder with deletions              (SpecPD)      *)
(*   - SchemaRegistry.match with schemas that raise          (SpecMT)      *)
(*   - marsh.utils.SafeDict                                  (SpecSD)      *)
(*   - marsh.utils.IterableFromIterator                      (SpecIT)      *)
(*   - Namespace.register used as a decorator                (SpecNR)      *)
(*   - marsh.utils.cache with binding='ignore'               (SpecIG)      *)
(***************************************************************************)
EXTENDS Integers, Sequences, FiniteSets, TLC

\* ------------------------------------------------------------------ bounds
NumValues == 3
MaxPriority == 1
MaxRel == 1
MaxAdds == 3
MaxDelAdds == 4

Values == 1..NumValues
Priorities == 0..MaxPriority

NumThreads == 2

Threads == 1..NumThreads

VARIABLES
    _values,    \* PriorityOrder._values: list of _WrappedValue records
    _counter,   \* PriorityOrder._WrappedValue._counter (class level)
    poRes,      \* outcome of the last PriorityOrder.add call
    delRes,     \* what the last PriorityOrder.__delitem__ call did
    heap,       \* the SchemaSelection list objects that are referenced
    matchCache, \* lru cache of UnmarshalSchemaRegistry.match: value -> object
    buildCache, \* lru cache of UnmarshalSchemaMeta._cached_build
    recCache,   \* UnmarshalSchemaMeta._recursive_cache: thread -> ValueCache
    stack,      \* per thread: the schema constructors that are running
    ret,        \* what the last step returned from a top level call, if so
    mret,       \* what registry.match returned in the last step, if called
    resolved,   \* per value: handler of the last top level call since register
    matched,    \* per value: selection of the last match call since register
    staleH,     \* per value: handler cached when a higher template came in
    _namespaces,          \* Namespaces._namespaces, in insertion order
    findClassCache,       \* lru cache of Namespaces.find_class
    findSubclassesCache,  \* lru cache of Namespaces.find_subclasses
    findNamespacesCache,  \* lru cache of Namespaces.find_namespaces
    schemaCache,          \* per type: the cached handler has the namespace wrapper
    registrations,        \* number of components registered so far
    nsRes,                \* what the last namespace operation did
    fcache,     \* a function wrapped with marsh.utils.cache
    vcache,     \* a marsh.utils.ValueCache
    bypassed,   \* the entries that were asked for while their cache was disabled
    caOps,      \* number of cache operations so far
    caRes,      \* what the last cache operation did
    storedUnder,  \* per entry of the ValueCache: the key it was stored with
    registry,   \* SchemaRegistry.priority of a registry whose schemas may raise
    matchRes,   \* what the last SchemaRegistry.match call on it did
    _hashable_cache,    \* SafeDict._hashable_cache: its keys, in dict order
    _unhashable_cache,  \* SafeDict._unhashable_cache: the keys of its pairs
    _order,             \* SafeDict._order: pairs (hashable, index)
    stored,     \* the keys set and not deleted since, by first insertion
    sdRes,      \* what the last SafeDict operation did
    _iter,      \* IterableFromIterator._iter: the items taken from it so far
    _cache,     \* IterableFromIterator._cache
    iterations, \* the generators made by IterableFromIterator.__iter__
    decorators, \* the decorators Namespace.register returned, not applied yet
    _self,      \* cache(binding='ignore'): the cell shared by all calls
    lru,        \* cache(binding='ignore'): the store of its lru_cache
    running,    \* per thread: where its call of the wrapped function stands
    igRes       \* the last invocation of func by cached_func

varsPO == <<_values, _counter, poRes, delRes>>
varsRS == <<heap, matchCache, buildCache, recCache, stack,
            ret, mret, resolved, matched, staleH>>
varsNS == <<_namespaces, findClassCache, findSubclassesCache,
            findNamespacesCache, schemaCache, registrations, nsRes>>
varsCA == <<fcache, vcache, bypassed, caOps, caRes, storedUnder>>
varsMT == <<registry, matchRes>>
varsSD == <<_hashable_cache, _unhashable_cache, _order, stored, sdRes>>
varsIT == <<_iter, _cache, iterations>>
varsNR == <<decorators>>
varsIG == <<_self, lru, running, igRes>>
varsUT == <<varsMT, varsSD, varsIT, varsNR, varsIG>>
vars == <<varsPO, varsRS, varsNS, varsCA, varsUT>>

\* ---------------------------------------------------------------- helpers
SeqRemoveAt(s, i) == SubSeq(s, 1, i - 1) \o SubSeq(s, i + 1, Len(s))

SeqInsertAt(s, i, e) == SubSeq(s, 1, i) \o <<e>> \o SubSeq(s, i + 1, Len(s))

\* ----------------------------------------------------- PriorityOrder (utils)
\* _WrappedValue.__init__: ident is hash(value); values of the model are
\* their own hash. index is the class level counter at construction.
WrappedValue(value, priority, lower, higher, index) ==
    [value |-> value, priority |-> priority,
     lower |-> lower, higher |-> higher, index |-> index]

\* _RelativePriorityContainer.__init__ raises ValueError on intersection.
InitCircular(lower, higher) == lower \cap higher # {}

\* _RelativePriorityContainer.get_relation
RelLower(self, other) ==
    self.value \in other.lower \/ other.value \in self.higher

RelHigher(self, other) ==
    self.value \in other.higher \/ other.value \in self.lower

RelCircular(self, other) == RelLower(self, other) /\ RelHigher(self, other)

\* _RelativePriorityContainer.has_relation
HasRelation(self, other) ==
    \/ other.value \in self.lower
    \/ other.value \in self.higher
    \/ self.value \in other.lower
    \/ self.value \in other.higher

\* _WrappedValue defines no __eq__: `self._values[i] == wrapped` compares
\* object identity. Every constructed _WrappedValue has its own index.
WrappedEq(a, b) == a.index = b.index

\* add(): the duplicate scan. Returns the index of the first entry equal
\* to wrapped, 0 if there is none.
RECURSIVE FindExisting(_, _, _)
FindExisting(vals, wrapped, i) ==
    IF i > Len(vals) THEN 0
    ELSE IF WrappedEq(vals[i], wrapped) THEN i
    ELSE FindExisting(vals, wrapped, i + 1)

\* Mutant of InsertionIndex: the base priority test is <= instead of <.
RECURSIVE InsertionIndexLe(_, _, _, _)
InsertionIndexLe(vals, wrapped, i, idx) ==
    IF i > Len(vals) THEN idx
    ELSE IF RelCircular(wrapped, vals[i]) THEN -1
    ELSE IF RelHigher(wrapped, vals[i]) THEN idx
    ELSE IF RelLower(wrapped, vals[i]) \/ wrapped.priority <= vals[i].priority
         THEN InsertionIndexLe(vals, wrapped, i + 1, i)
         ELSE InsertionIndexLe(vals, wrapped, i + 1, idx)

\* add(): the insertion index scan. i is the 1-based position examined,
\* idx the insertion index so far. Returns -1 when get_relation raises.
RECURSIVE InsertionIndex(_, _, _, _)
InsertionIndex(vals, wrapped, i, idx) ==
    IF i > Len(vals) THEN idx
    ELSE IF RelCircular(wrapped, vals[i]) THEN -1
    ELSE IF RelHigher(wrapped, vals[i]) THEN idx
    ELSE IF RelLower(wrapped, vals[i]) \/ wrapped.priority < vals[i].priority
         THEN InsertionIndex(vals, wrapped, i + 1, i)
         ELSE InsertionIndex(vals, wrapped, i + 1, idx)

\* PriorityOrder.add (the inner wrapper): result of adding to vals with the
\* class counter at cnt. res is "ok", "circular" (ValueError from the
\* relative priorities) or "exists" (ValueError from the duplicate check).
AddTo(vals, cnt, value, priority, lower, higher, replace) ==
    IF InitCircular(lower, higher)
    THEN [vals |-> vals, cnt |-> cnt, res |-> "circular"]
    ELSE
      LET wrapped == WrappedValue(value, priority, lower, higher, cnt)
          dup == FindExisting(vals, wrapped, 1)
      IN IF dup # 0 /\ ~replace
         THEN [vals |-> vals, cnt |-> cnt + 1, res |-> "exists"]
         ELSE
           LET kept == IF dup # 0 THEN SeqRemoveAt(vals, dup) ELSE vals
               idx == InsertionIndex(kept, wrapped, 1, 0)
           IN IF idx < 0
              THEN [vals |-> kept, cnt |-> cnt + 1, res |-> "circular"]
              ELSE [vals |-> SeqInsertAt(kept, idx, wrapped),
                    cnt |-> cnt + 1, res |-> "ok"]

\* PriorityOrder.reload: `sorted(self._values, key=lambda x: x.index)`.
\* Every entry has its own index.
RECURSIVE SortedByIndex(_)
SortedByIndex(vals) ==
    IF vals = <<>> THEN <<>>
    ELSE LET m == CHOOSE i \in 1..Len(vals) :
                      \A j \in 1..Len(vals) : vals[i].index <= vals[j].index
         IN <<vals[m]>> \o SortedByIndex(SeqRemoveAt(vals, m))

\* PriorityOrder.reload: the loop that adds the sorted values again, from
\* position i on, to the order acc. An add that raises ends the loop and
\* leaves the order as it is at that point.
RECURSIVE ReloadFrom(_, _, _, _)
ReloadFrom(values, i, acc, cnt) ==
    IF i > Len(values) THEN [vals |-> acc, cnt |-> cnt, res |-> "ok"]
    ELSE LET r == AddTo(acc, cnt, values[i].value, values[i].priority,
                        values[i].lower, values[i].higher, FALSE)
         IN IF r.res # "ok" THEN r
            ELSE ReloadFrom(values, i + 1, r.vals, r.cnt)

\* PriorityOrder.reload
reload(vals, cnt) == ReloadFrom(SortedByIndex(vals), 1, <<>>, cnt)

\* PriorityOrder.__delitem__: the test that decides on the reload.
RemovedHasRelation(kept, removed) ==
    \E i \in 1..Len(kept), j \in 1..Len(removed) :
        HasRelation(kept[i], removed[j])

\* PriorityOrder.__delitem__ for the positions lo..hi (an index is lo = hi,
\* a slice is `lo-1:hi`).
DelItem(vals, cnt, lo, hi) ==
    LET removed == SubSeq(vals, lo, hi)
        kept == SubSeq(vals, 1, lo - 1) \o SubSeq(vals, hi + 1, Len(vals))
    IN IF RemovedHasRelation(kept, removed)
       THEN LET r == reload(kept, cnt)
            IN [vals |-> r.vals, cnt |-> r.cnt, res |-> r.res,
                reloaded |-> TRUE]
       ELSE [vals |-> kept, cnt |-> cnt, res |-> "ok", reloaded |-> FALSE]

NoDelRes == [op |-> "none", res |-> "", reloaded |-> FALSE, kept |-> <<>>]

\* ------------------------------------------- schema registry and resolution
\* The values that are resolved. "A" is a record type with a field of type
\* Optional[A]; "OptA" is that union.
Descriptors == {"A", "OptA"}

\* UnmarshalSchemaMeta.__call__: get_origin(value) is Union
IsUnion(d) == d = "OptA"

\* Whether hash(value) succeeds (lru_cache raises TypeError otherwise and
\* the safe cache calls the function directly); both values are types.
Hashable(d) == d \in {"A", "OptA"}

\* The schema classes. "Recursive" is RecursiveReferenceUnmarshalSchema.
Templates == {"Record", "Union", "Tagged", "Custom", "Recursive"}

\* issubclass(schema, WrapperSchema)
IsWrapper(tm) == tm \in {"Tagged", "Recursive"}

\* schema.match(value)
Matches(tm, d) ==
    CASE tm = "Record" -> d = "A"
      [] tm = "Union" -> d = "OptA"
      [] tm = "Tagged" -> d = "A"
      [] tm = "Custom" -> d = "A"
      [] OTHER -> FALSE

\* The values a schema class resolves in its constructor
\* (DataclassUnmarshalSchema: the field types; UnionUnmarshalSchema: the
\* members of the union).
Fields(tm, d) ==
    CASE tm = "Record" /\ d = "A" -> <<"OptA">>
      [] tm = "Union" /\ d = "OptA" -> <<"A">>
      [] OTHER -> <<>>

\* A selection list object is named by the thread whose _build call created
\* it for a value: that thread's recursive cache holds the list until
\* cache_clear drops every reference, so no thread creates a second list
\* for the same value while the first one is alive. 0 stands for no object.
ObjIds == Descriptors \X Threads

NoThreadCache == [d \in Descriptors |-> 0]

NoRet == [kind |-> "none", d |-> "A", h |-> <<>>, via |-> "", busy |-> FALSE,
          prev |-> <<>>, stale |-> <<>>, fresh |-> <<>>, err |-> ""]

NoMret == [d |-> "A", sel |-> <<>>, prev |-> <<>>]

\* No schema was resolved yet: all caches are empty.
IdleRS ==
    /\ heap = [o \in ObjIds |-> <<>>]
    /\ matchCache = [d \in Descriptors |-> 0]
    /\ buildCache = [d \in Descriptors |-> <<>>]
    /\ recCache = [t \in Threads |-> NoThreadCache]
    /\ stack = [t \in Threads |-> <<>>]
    /\ ret = NoRet
    /\ mret = NoMret
    /\ resolved = [d \in Descriptors |-> <<>>]
    /\ matched = [d \in Descriptors |-> <<>>]
    /\ staleH = [d \in Descriptors |-> <<>>]

\* ------------------------------------------------------------- namespaces
MaxRegistrations == 2

\* The classes of the model: Circle and Square are subclasses of Shape.
Types == {"Shape", "Circle", "Square"}

\* issubclass(cls, base)
IsSubclass(cls, base) == cls = base \/ base = "Shape"

\* The names namespaces are created with, and their base classes.
NamespaceNames == {"shapes", "figures"}
Bases == {"Shape", "Circle"}

\* The classes that are registered as components.
Components == {"Circle", "Square"}

\* The names components are registered with.
ComponentNames == {"x", "y", ""}

NoneName == "None"

\* bool(name) of an Optional[str]
Truthy(name) == name \notin {NoneName, ""}

Miss == [hit |-> FALSE, val |-> <<>>]
Hit(val) == [hit |-> TRUE, val |-> val]

NoNsRes == [op |-> "none", res |-> "", ns |-> 0, name |-> NoneName,
            component |-> "", replace |-> FALSE, before |-> "",
            enc |-> NoneName, dec |-> "", dns |-> 0, had |-> FALSE,
            own |-> NoneName]

\* No namespace was created yet and nothing is cached.
IdleNS ==
    /\ _namespaces = <<>>
    /\ findClassCache = [cls \in Types |-> Miss]
    /\ findSubclassesCache = [cls \in Types |-> Miss]
    /\ findNamespacesCache = [cls \in Types |-> Miss]
    /\ schemaCache = [cls \in Types |-> "miss"]
    /\ registrations = 0
    /\ nsRes = NoNsRes

\* ---------------------------------------------------------------- caches
MaxOps == 5

\* The arguments the wrapped function is called with: k* are hashable,
\* u* are not (lists).
Args == {"k1", "k2", "kv", "kt", "u1", "ut"}

\* hash(arg) succeeds
ArgHashable(a) == a \in {"k1", "k2", "kv", "kt"}

\* func(arg): the value the wrapped function returns or the error it
\* raises; the function is pure.
Func(a) ==
    CASE a = "k1" -> "r1"
      [] a = "k2" -> "r2"
      [] a = "kv" -> "ValueError"
      [] a = "kt" -> "TypeError"
      [] a = "u1" -> "r1"
      [] a = "ut" -> "TypeError"

IsError(out) == out \in {"ValueError", "TypeError", "KeyError"}

NoResult == "none"

\* The keys of the ValueCache: integers, and the values stored.
Keys == {1, 2, -1, -2}
Stored == {"v1", "v2"}

\* hash(key) of an int (CPython: hash(-1) is -2).
HashOf(k) == IF k = -1 THEN -2 ELSE k

\* ValueCache._make_key: make_hash_key(key) is a _CachedHashKey, a list
\* subclass whose __init__ keeps the hash of (key,) and leaves the list
\* empty, so two keys are the same key of the store when the hashes are
\* equal.
MakeKey(k) == HashOf(k)

StoreKeys == {MakeKey(k) : k \in Keys}

\* cache(func, safe=safe): the lru_cache store with its counters and the
\* `disabled` flag of the wrapper.
NewCache(safe) ==
    [store |-> [a \in Args |-> NoResult], hits |-> 0, misses |-> 0,
     disabled |-> FALSE, safe |-> safe]

\* ValueCache.__init__
NewValueCache ==
    [_cache |-> [h \in StoreKeys |-> NoResult], _hits |-> 0, _misses |-> 0,
     _disabled |-> FALSE]

\* calls: how often the wrapped function ran in the operation; before and
\* vbefore: the cache the operation found.
NoCaRes == [op |-> "none", arg |-> "", key |-> 0, out |-> NoResult,
            calls |-> 0, before |-> NewCache(TRUE),
            vbefore |-> NewValueCache]

\* No entry was stored yet (0: the entry is empty).
NoWriters == [h \in StoreKeys |-> 0]

\* No cache operation was made yet.
IdleCA ==
    /\ fcache = NewCache(TRUE)
    /\ vcache = NewValueCache
    /\ bypassed = {}
    /\ caOps = 0
    /\ caRes = NoCaRes
    /\ storedUnder = NoWriters

NoMatchRes == [op |-> "none", res |-> "", sel |-> <<>>, reg |-> <<>>]

\* The arguments (without the receiver) and the receivers of the calls of
\* a function wrapped with cache(binding='ignore').
BoundArgs == {"a", "b"}
Receivers == {"r1", "r2"}

\* A thread that is not inside a call of the wrapped function.
Returned == [pc |-> "returned", self |-> "None", arg |-> "a", out |-> <<>>]

NoIgRes == [op |-> "none", t |-> 0, passed |-> "None", received |-> "None",
            arg |-> "a", calls |-> 0]

NoSdRes == [op |-> "none", key |-> "", res |-> "", ops |-> 0]

IdleUT ==
    /\ registry = <<>>
    /\ matchRes = NoMatchRes
    /\ _hashable_cache = <<>>
    /\ _unhashable_cache = <<>>
    /\ _order = <<>>
    /\ stored = <<>>
    /\ sdRes = NoSdRes
    /\ _iter = 0
    /\ _cache = <<>>
    /\ iterations = <<>>
    /\ decorators = {}
    /\ _self = "None"
    /\ lru = [a \in BoundArgs |-> NoResult]
    /\ running = [t \in Threads |-> Returned]
    /\ igRes = NoIgRes

\* The relative priorities a caller names: at most MaxRel other values.
RelSets(value) ==
    {s \in SUBSET (Values \ {value}) : Cardinality(s) <= MaxRel}

\* PriorityOrder.add(value, priority=, lower_priority=, higher_priority=,
\* replace=)
add(value, priority, lower, higher, replace) ==
    /\ LET r == AddTo(_values, _counter, value, priority, lower, higher, replace)
       IN /\ _values' = r.vals
          /\ _counter' = r.cnt
          /\ poRes' = [res |-> r.res,
                       dup |-> ~replace /\ \E i \in 1..Len(_values) :
                                               _values[i].value = value,
                       contra |-> \/ InitCircular(lower, higher)
                                  \/ \E i \in 1..Len(_values) :
                                        /\ _values[i].value # value
                                        /\ RelCircular(
                                             WrappedValue(value, priority,
                                                          lower, higher, 0),
                                             _values[i])]
          /\ delRes' = NoDelRes

InitPO ==
    /\ _values = <<>>
    /\ _counter = 0
    /\ poRes = [res |-> "none", dup |-> FALSE, contra |-> FALSE]
    /\ delRes = NoDelRes
    /\ IdleRS
    /\ IdleNS
    /\ IdleCA
    /\ IdleUT

NextPO ==
    \E value \in Values, priority \in Priorities, replace \in BOOLEAN :
        \E lower \in RelSets(value), higher \in RelSets(value) :
            /\ Cardinality(lower \cup higher) <= MaxRel
            /\ _counter < MaxAdds
            /\ add(value, priority, lower, higher, replace)
            /\ UNCHANGED <<varsRS, varsNS, varsCA, varsUT>>

SpecPO == InitPO /\ [][NextPO]_vars

\* ------------------------------------------------- PriorityOrder properties
Positions == 1..Len(_values)

DistinctValues ==
    \A i \in Positions, j \in Positions :
        _values[i].value = _values[j].value => i = j

\* C4: an entry explicitly declared higher than another entry of the order
\* precedes it in iteration order, whatever the base priorities.
\* (Stated for orders without duplicate values and for pairs whose relation
\* is not contradictory, so that a violation is one of the ordering alone.)
C4_ExplicitHigherPrecedes ==
    DistinctValues =>
        \A i \in Positions, j \in Positions :
            ( /\ RelHigher(_values[i], _values[j])
              /\ ~RelLower(_values[i], _values[j]) ) => i < j

\* C5 as stated: two entries without explicit relation to each other are
\* ordered by base priority, larger first, and equal base priorities by
\* insertion order, earlier first.
C5_PriorityThenInsertion ==
    DistinctValues =>
        \A i \in Positions, j \in Positions :
            (i < j /\ ~HasRelation(_values[i], _values[j])) =>
                \/ _values[i].priority > _values[j].priority
                \/ /\ _values[i].priority = _values[j].priority
                   /\ _values[i].index < _values[j].index

NoRelatedEntries ==
    \A i \in Positions, j \in Positions :
        i # j => ~HasRelation(_values[i], _values[j])

\* C5 amended: when no two entries of the order have an explicit relation
\* with each other, the order is by base priority, larger first, and
\* entries of equal base priority are in reverse insertion order (the most
\* recently added first).
C5_UnrelatedByPriority ==
    NoRelatedEntries =>
        \A i \in Positions, j \in Positions :
            i < j =>
                \/ _values[i].priority > _values[j].priority
                \/ /\ _values[i].priority = _values[j].priority
                   /\ _values[i].index > _values[j].index

C5_Witness ==
    /\ Len(_values) = 3
    /\ NoRelatedEntries
    /\ _values[1].priority > _values[2].priority
    /\ _values[2].priority = _values[3].priority
    /\ _values[2].index > _values[3].index
    /\ _values[1].index < _values[2].index
    /\ _values[2].lower # {}

\* C7: an add whose relations contradict an entry of the order, or whose
\* own lower and higher sets intersect, raises; hence no two entries of
\* the order carry mutually contradictory relations.
C7_ContradictionRaises ==
    DistinctValues =>
        /\ poRes.contra => poRes.res = "circular"
        /\ \A i \in Positions, j \in Positions :
               i # j => ~RelCircular(_values[i], _values[j])

\* C8: add rejects a value that is already in the order unless replace is
\* set, and with replace the old entry is removed: every value occurs at
\* most once in the order.
C8_NoDuplicateValues ==
    /\ poRes.dup => poRes.res # "ok"
    /\ DistinctValues

\* ------------------------------------------- PriorityOrder with deletions
\* del order[lo - 1:hi] (del order[lo - 1] when lo = hi)
__delitem__(lo, hi) ==
    /\ lo <= hi
    /\ hi <= Len(_values)
    /\ LET r == DelItem(_values, _counter, lo, hi)
       IN /\ _values' = r.vals
          /\ _counter' = r.cnt
          /\ poRes' = [res |-> "none", dup |-> FALSE, contra |-> FALSE]
          /\ delRes' = [op |-> "del", res |-> r.res, reloaded |-> r.reloaded,
                        kept |-> SubSeq(_values, 1, lo - 1)
                                 \o SubSeq(_values, hi + 1, Len(_values))]

\* The caller adds a value that was never added before each time: values
\* are named by the number of wrappers built before them.
NextPD ==
    \/ \E value \in 1..MaxDelAdds, priority \in Priorities :
           \E lower \in RelSets(value), higher \in RelSets(value) :
               /\ Cardinality(lower \cup higher) <= MaxRel
               /\ _counter < MaxDelAdds
               /\ value = _counter + 1
               /\ add(value, priority, lower, higher, FALSE)
               /\ UNCHANGED <<varsRS, varsNS, varsCA, varsUT>>
    \/ \E lo \in 1..MaxDelAdds, hi \in 1..MaxDelAdds :
           /\ __delitem__(lo, hi)
           /\ UNCHANGED <<varsRS, varsNS, varsCA, varsUT>>

SpecPD == InitPO /\ [][NextPD]_vars

\* An entry without its index, and an order without its indexes.
Entry(w) == [value |-> w.value, priority |-> w.priority,
             lower |-> w.lower, higher |-> w.higher]

Stripped(vals) == [i \in 1..Len(vals) |-> Entry(vals[i])]

Count(seq, e) == Cardinality({i \in 1..Len(seq) : seq[i] = e})

SameEntries(a, b) ==
    /\ Len(a) = Len(b)
    /\ \A i \in 1..Len(a) :
           Count(Stripped(a), Entry(a[i])) = Count(Stripped(b), Entry(a[i]))

\* The order that adding the entries of vals, in their insertion order, to
\* an empty PriorityOrder yields.
Rebuilt(vals) == ReloadFrom(SortedByIndex(vals), 1, <<>>, 0)

\* C22: a delete that removes an entry related to a remaining entry
\* completes without error and leaves exactly the surviving entries, each
\* once, arranged as adding them in insertion order to an empty order does.
C22_DeleteRebuilds ==
    (delRes.op = "del" /\ delRes.reloaded) =>
        /\ delRes.res = "ok"
        /\ SameEntries(_values, delRes.kept)
        /\ Rebuilt(delRes.kept).res = "ok"
        /\ Stripped(_values) = Stripped(Rebuilt(delRes.kept).vals)

\* C27: a delete that removes only entries without relation to the
\* remaining ones leaves the survivors in the order that adding them, in
\* insertion order, to an empty order yields.
C27_SkippedRebuildSameOrder ==
    (delRes.op = "del" /\ ~delRes.reloaded) =>
        /\ Rebuilt(delRes.kept).res = "ok"
        /\ Stripped(_values) = Stripped(Rebuilt(delRes.kept).vals)

\* SchemaRegistry.match: the matching schema classes in priority order up
\* to the first one that is not a wrapper; <<>> stands for raising
\* self.error.
\* MatchFrom that returns at the first match, wrapper or not.
RECURSIVE MatchFromFirstHit(_, _, _, _)
MatchFromFirstHit(vals, d, i, schemas) ==
    IF i > Len(vals) THEN <<>>
    ELSE IF Matches(vals[i].value, d)
         THEN Append(schemas, vals[i].value)
         ELSE MatchFromFirstHit(vals, d, i + 1, schemas)

RECURSIVE MatchFrom(_, _, _, _)
MatchFrom(vals, d, i, schemas) ==
    IF i > Len(vals) THEN <<>>
    ELSE IF Matches(vals[i].value, d)
         THEN IF IsWrapper(vals[i].value)
              THEN MatchFrom(vals, d, i + 1, Append(schemas, vals[i].value))
              ELSE Append(schemas, vals[i].value)
         ELSE MatchFrom(vals, d, i + 1, schemas)

match(vals, d) == MatchFrom(vals, d, 1, <<>>)

\* The lists something still refers to; the others are dropped.
Referenced(mc, rc) ==
    {o \in ObjIds :
        \/ mc[o[1]] = o[2]
        \/ \E t \in Threads : rc[t][o[1]] = o[2]}

Collect(hp, mc, rc) ==
    [o \in ObjIds |-> IF o \in Referenced(mc, rc) THEN hp[o] ELSE <<>>]

\* ValueCache.__len__ / `if recursive_cache:`
NonEmpty(cache) == \E d \in Descriptors : cache[d] # 0

\* _build that leaves out `recursive_cache[value] = result`.
_buildNoRecord(t, d) ==
    IF NonEmpty(recCache[t]) /\ recCache[t][d] # 0
    THEN [kind |-> "rec", sel |-> heap[<<d, recCache[t][d]>>], msel |-> <<>>,
          hp |-> heap, mc |-> matchCache, rc |-> recCache]
    ELSE
      LET hit == Hashable(d) /\ matchCache[d] # 0
          result == IF hit THEN heap[<<d, matchCache[d]>>]
                    ELSE match(_values, d)
      IN IF result = <<>>
         THEN [kind |-> "raise", sel |-> <<>>, msel |-> <<>>,
               hp |-> heap, mc |-> matchCache, rc |-> recCache]
         ELSE
           LET obj == IF hit THEN matchCache[d] ELSE t
               mc == IF Hashable(d)
                     THEN [matchCache EXCEPT ![d] = obj] ELSE matchCache
               rc == recCache
               hp == [heap EXCEPT ![<<d, obj>>] = <<"Recursive">> \o result]
           IN [kind |-> "new", sel |-> result, msel |-> result,
               hp |-> Collect(hp, mc, rc), mc |-> mc, rc |-> rc]

\* UnmarshalSchemaMeta._build without the final build(): the selection the
\* handler is built from and the caches afterwards.
\*   kind "rec":   recursive_cache[value] was found, sel is that selection
\*   kind "new":   registry.match(value) ran, the placeholder was inserted
\*                 and the list stored in recursive_cache; sel is result[1:]
\*   kind "raise": registry.match raised
\* msel is the list registry.match returned (<<>> if it was not called).
_build(t, d) ==
    IF NonEmpty(recCache[t]) /\ recCache[t][d] # 0
    THEN [kind |-> "rec", sel |-> heap[<<d, recCache[t][d]>>], msel |-> <<>>,
          hp |-> heap, mc |-> matchCache, rc |-> recCache]
    ELSE
      LET hit == Hashable(d) /\ matchCache[d] # 0
          result == IF hit THEN heap[<<d, matchCache[d]>>]
                    ELSE match(_values, d)
      IN IF result = <<>>
         THEN [kind |-> "raise", sel |-> <<>>, msel |-> <<>>,
               hp |-> heap, mc |-> matchCache, rc |-> recCache]
         ELSE
           LET obj == IF hit THEN matchCache[d] ELSE t
               mc == IF Hashable(d)
                     THEN [matchCache EXCEPT ![d] = obj] ELSE matchCache
               rc == [recCache EXCEPT ![t][d] = obj]
               hp == [heap EXCEPT ![<<d, obj>>] = <<"Recursive">> \o result]
           IN [kind |-> "new", sel |-> result, msel |-> result,
               hp |-> Collect(hp, mc, rc), mc |-> mc, rc |-> rc]

\* Whether UnmarshalSchemaMeta.__call__ goes through _cached_build and the
\* lru cache can build a key.
UsesBuildCache(d) == ~IsUnion(d) /\ Hashable(d)

\* UnmarshalSchemaMeta.__call__ up to the point where either a handler is
\* returned ("ret"), a schema constructor has to run ("push") or an error
\* is raised ("raise").
Enter(t, d) ==
    IF UsesBuildCache(d) /\ buildCache[d] # <<>>
    THEN [kind |-> "ret", via |-> "cache", h |-> buildCache[d],
          msel |-> <<>>, store |-> FALSE,
          hp |-> heap, mc |-> matchCache, rc |-> recCache]
    ELSE
      LET b == _build(t, d)
      IN IF b.kind = "raise"
         THEN [kind |-> "raise", via |-> b.kind, h |-> <<>>,
               msel |-> <<>>, store |-> FALSE,
               hp |-> heap, mc |-> matchCache, rc |-> recCache]
         ELSE IF Len(b.sel) > 1
         \* SchemaSelection.build: self[0](*args, wrapped=self[1:]); the
         \* wrapped schema is built lazily
         THEN [kind |-> "ret", via |-> b.kind, h |-> b.sel, msel |-> b.msel,
               store |-> UsesBuildCache(d),
               hp |-> b.hp, mc |-> b.mc, rc |-> b.rc]
         ELSE [kind |-> "push", via |-> b.kind, h |-> b.sel, msel |-> b.msel,
               store |-> UsesBuildCache(d),
               hp |-> b.hp, mc |-> b.mc, rc |-> b.rc]

Frame(d, chain, todo, cached) ==
    [d |-> d, chain |-> chain, todo |-> todo, cached |-> cached]

\* Bookkeeping of a registry.match return (history, not program state).
NoteMatch(d, msel) ==
    IF msel = <<>>
    THEN /\ mret' = NoMret
         /\ UNCHANGED matched
    ELSE /\ mret' = [d |-> d, sel |-> msel, prev |-> matched[d]]
         /\ matched' = [matched EXCEPT ![d] = msel]

\* Bookkeeping of a top level return (history, not program state).
NoteReturn(d, h, via) ==
    /\ ret' = [kind |-> "ok", d |-> d, h |-> h, via |-> via, busy |-> FALSE,
               prev |-> resolved[d], stale |-> staleH[d],
               fresh |-> match(_values, d), err |-> ""]
    /\ resolved' = [resolved EXCEPT ![d] = h]
    /\ staleH' = [staleH EXCEPT ![d] = <<>>]

\* Whether a constructor of a schema for d is running on thread t.
InProgress(t, d) == \E i \in 1..Len(stack[t]) : stack[t][i].d = d

\* A top level UnmarshalSchema(value) call on thread t.
Call(t, d) ==
    /\ stack[t] = <<>>
    /\ LET e == Enter(t, d)
       IN /\ heap' = e.hp
          /\ matchCache' = e.mc
          /\ recCache' = e.rc
          /\ NoteMatch(d, e.msel)
          /\ CASE e.kind = "ret" ->
                    /\ buildCache' = IF e.store
                                     THEN [buildCache EXCEPT ![d] = e.h]
                                     ELSE buildCache
                    /\ NoteReturn(d, e.h, e.via)
                    /\ UNCHANGED stack
               [] e.kind = "push" ->
                    /\ stack' = [stack EXCEPT ![t] =
                           <<Frame(d, e.h, Fields(e.h[1], d), e.store)>>]
                    /\ ret' = NoRet
                    /\ UNCHANGED <<buildCache, resolved, staleH>>
               [] e.kind = "raise" ->
                    /\ ret' = [NoRet EXCEPT !.kind = "error", !.d = d]
                    /\ UNCHANGED <<buildCache, stack, resolved, staleH>>
    /\ UNCHANGED <<varsPO, varsNS, varsCA, varsUT>>

\* The running constructor on thread t resolves its next field:
\* marsh.schema.UnmarshalSchema(type_) inside a schema __init__.
Nested(t) ==
    /\ stack[t] # <<>>
    /\ LET n == Len(stack[t])
           top == stack[t][n]
       IN /\ top.todo # <<>>
          /\ LET d == Head(top.todo)
                 e == Enter(t, d)
             IN /\ heap' = e.hp
                /\ matchCache' = e.mc
                /\ recCache' = e.rc
                /\ NoteMatch(d, e.msel)
                /\ CASE e.kind = "ret" ->
                          /\ buildCache' = IF e.store
                                           THEN [buildCache EXCEPT ![d] = e.h]
                                           ELSE buildCache
                          /\ stack' = [stack EXCEPT ![t][n].todo = Tail(top.todo)]
                          /\ ret' = [NoRet EXCEPT
                                 !.kind = "nested", !.d = d, !.h = e.h,
                                 !.via = e.via, !.busy = InProgress(t, d)]
                     [] e.kind = "push" ->
                          /\ stack' = [stack EXCEPT ![t] = Append(stack[t],
                                 Frame(d, e.h, Fields(e.h[1], d), e.store))]
                          /\ ret' = NoRet
                          /\ UNCHANGED buildCache
                     [] e.kind = "raise" ->
                          \* the error propagates through every constructor
                          /\ stack' = [stack EXCEPT ![t] = <<>>]
                          /\ ret' = [NoRet EXCEPT !.kind = "error",
                                                  !.d = stack[t][1].d]
                          /\ UNCHANGED buildCache
    /\ UNCHANGED <<resolved, staleH>>
    /\ UNCHANGED <<varsPO, varsNS, varsCA, varsUT>>

\* The running constructor on thread t has resolved all its fields and
\* returns; lru_cache stores the handler when the call came through
\* _cached_build.
Finish(t) ==
    /\ stack[t] # <<>>
    /\ LET n == Len(stack[t])
           top == stack[t][n]
       IN /\ top.todo = <<>>
          /\ buildCache' = IF top.cached
                           THEN [buildCache EXCEPT ![top.d] = top.chain]
                           ELSE buildCache
          /\ IF n = 1
             THEN /\ stack' = [stack EXCEPT ![t] = <<>>]
                  /\ NoteReturn(top.d, top.chain, "new")
             ELSE /\ stack' = [stack EXCEPT ![t] =
                         [SubSeq(stack[t], 1, n - 1) EXCEPT
                             ![n - 1].todo = Tail(stack[t][n - 1].todo)]]
                  /\ ret' = NoRet
                  /\ UNCHANGED <<resolved, staleH>>
    /\ mret' = NoMret
    /\ UNCHANGED <<heap, matchCache, recCache, matched>>
    /\ UNCHANGED <<varsPO, varsNS, varsCA, varsUT>>

\* The errors a schema constructor raises.
Errors == {"ValueError", "TypeError"}

\* The running constructor at which the safe cache of _cached_build catches
\* the error err raised by the innermost constructor: `except TypeError`
\* around the call through lru_cache, so the innermost constructor whose
\* call came through the cache when the error is a TypeError; 0 when the
\* error reaches the caller of the top level call.
Catcher(frames, err) ==
    LET inCache == {i \in 1..Len(frames) : frames[i].cached}
    IN IF err # "TypeError" \/ inCache = {} THEN 0
       ELSE CHOOSE i \in inCache : \A j \in inCache : j <= i

\* The constructor running innermost on thread t raises err. The error
\* leaves every constructor up to the one the safe cache catches it at;
\* there `return func(*args, **kwargs)` calls _cached_build again outside of
\* lru_cache, and _build finds the value in the recursive cache of the
\* thread. Without a catcher the top level call raises err. Nothing removes
\* the values from the recursive cache.
Raise(t, err) ==
    /\ stack[t] # <<>>
    /\ LET i == Catcher(stack[t], err)
       IN IF i = 0
          THEN /\ stack' = [stack EXCEPT ![t] = <<>>]
               /\ ret' = [NoRet EXCEPT !.kind = "raised", !.d = stack[t][1].d,
                                       !.err = err]
               /\ UNCHANGED <<heap, matchCache, recCache, resolved, staleH>>
          ELSE LET d == stack[t][i].d
                   b == _build(t, d)
               IN /\ b.kind = "rec"
                  /\ heap' = b.hp
                  /\ matchCache' = b.mc
                  /\ recCache' = b.rc
                  /\ IF i = 1
                     THEN /\ stack' = [stack EXCEPT ![t] = <<>>]
                          /\ ret' = [kind |-> "ok", d |-> d, h |-> b.sel,
                                     via |-> "retry", busy |-> FALSE,
                                     prev |-> resolved[d], stale |-> staleH[d],
                                     fresh |-> match(_values, d), err |-> err]
                          /\ resolved' = [resolved EXCEPT ![d] = b.sel]
                          /\ staleH' = [staleH EXCEPT ![d] = <<>>]
                     ELSE /\ stack' = [stack EXCEPT ![t] =
                                 [SubSeq(stack[t], 1, i - 1) EXCEPT
                                     ![i - 1].todo = Tail(stack[t][i - 1].todo)]]
                          /\ ret' = [NoRet EXCEPT
                                 !.kind = "nested", !.d = d, !.h = b.sel,
                                 !.via = "retry", !.busy = TRUE, !.err = err]
                          /\ UNCHANGED <<resolved, staleH>>
    /\ mret' = NoMret
    /\ UNCHANGED <<buildCache, matched>>
    /\ UNCHANGED <<varsPO, varsNS, varsCA, varsUT>>

\* The priorities user schemas are registered with: below and above the
\* default priority 0 of the schemas registered at import.
RegisterPriorities == {-1, 1}

AllIdle == \A t \in Threads : stack[t] = <<>>

Registered == {_values[i].value : i \in 1..Len(_values)}

\* UnmarshalSchemaRegistry.register(schema, priority=priority): clears the
\* cache of match, then adds to the priority order.
register(tm, priority) ==
    /\ AllIdle
    /\ tm \notin Registered
    /\ LET r == AddTo(_values, _counter, tm, priority, {}, {}, FALSE)
           mc == [d \in Descriptors |-> 0]
       IN /\ _values' = r.vals
          /\ _counter' = r.cnt
          /\ poRes' = [res |-> r.res, dup |-> FALSE, contra |-> FALSE]
          /\ delRes' = NoDelRes
          /\ matchCache' = mc
          /\ heap' = Collect(heap, mc, recCache)
          /\ staleH' = [d \in Descriptors |->
                IF /\ buildCache[d] # <<>>
                   /\ Matches(tm, d)
                   /\ match(r.vals, d) # <<>>
                   /\ match(r.vals, d)[1] = tm
                THEN buildCache[d] ELSE staleH[d]]
    /\ resolved' = [d \in Descriptors |-> <<>>]
    /\ matched' = [d \in Descriptors |-> <<>>]
    /\ ret' = NoRet
    /\ mret' = NoMret
    /\ UNCHANGED <<buildCache, recCache, stack>>
    /\ UNCHANGED <<varsNS, varsCA, varsUT>>

\* UnmarshalSchemaMeta.cache_clear
cache_clear ==
    /\ AllIdle
    /\ \/ \E d \in Descriptors : matchCache[d] # 0 \/ buildCache[d] # <<>>
       \/ \E t \in Threads : NonEmpty(recCache[t])
    /\ matchCache' = [d \in Descriptors |-> 0]
    /\ buildCache' = [d \in Descriptors |-> <<>>]
    /\ recCache' = [t \in Threads |-> NoThreadCache]
    /\ heap' = [o \in ObjIds |-> <<>>]
    /\ matched' = [d \in Descriptors |-> <<>>]
    /\ ret' = NoRet
    /\ mret' = NoMret
    /\ UNCHANGED <<stack, resolved, staleH>>
    /\ UNCHANGED <<varsPO, varsNS, varsCA, varsUT>>

\* The registry after import of marsh.schema.types: the record and the
\* union schema are registered with the default priority.
InitRS ==
    /\ LET r1 == AddTo(<<>>, 0, "Record", 0, {}, {}, FALSE)
           r2 == AddTo(r1.vals, r1.cnt, "Union", 0, {}, {}, FALSE)
       IN /\ _values = r2.vals
          /\ _counter = r2.cnt
    /\ poRes = [res |-> "ok", dup |-> FALSE, contra |-> FALSE]
    /\ delRes = NoDelRes
    /\ IdleRS
    /\ IdleNS
    /\ IdleCA
    /\ IdleUT

NextRS ==
    \/ \E t \in Threads, d \in Descriptors : Call(t, d)
    \/ \E t \in Threads : Nested(t)
    \/ \E t \in Threads : Finish(t)
    \/ \E tm \in {"Tagged", "Custom"}, priority \in RegisterPriorities :
           register(tm, priority)
    \/ cache_clear

SpecRS == InitRS /\ [][NextRS]_vars

\* Resolution with schema constructors that raise.
NextCE ==
    \/ \E t \in Threads, d \in Descriptors : Call(t, d)
    \/ \E t \in Threads : Nested(t)
    \/ \E t \in Threads : Finish(t)
    \/ \E t \in Threads, err \in Errors : Raise(t, err)
    \/ cache_clear

SpecCE == InitRS /\ [][NextCE]_vars

Range(f) == {f[i] : i \in 1..Len(f)}

\* C1: after resolve(D) cached a handler, registering a matching template
\* that takes the first place in the selection makes the next resolve(D)
\* return a handler built from the new selection, never the handler that
\* was cached before the registration.
C1_RegistrationInvalidatesHandler ==
    (ret.kind = "ok" /\ ret.stale # <<>>) =>
        /\ ret.h # ret.stale
        /\ ret.fresh[1] \in Range(ret.h)

\* No value is under construction twice on the stack of one thread.
NoReentry ==
    \A t \in Threads : \A i, j \in 1..Len(stack[t]) :
        stack[t][i].d = stack[t][j].d => i = j

\* Every value under construction on a thread is in the recursive cache
\* (the in-progress map) of that thread.
InProgressRecorded ==
    \A t \in Threads : \A i \in 1..Len(stack[t]) :
        recCache[t][stack[t][i].d] # 0

\* A nested resolve of a value that is under construction on the same
\* thread returns a placeholder.
NestedReturnsPlaceholder ==
    (ret.kind = "nested" /\ ret.busy) => Head(ret.h) = "Recursive"

\* The largest number of values one constructor resolves.
FieldCount ==
    CHOOSE n \in 0..Cardinality(Descriptors) :
        /\ \A tm \in Templates, d \in Descriptors : Len(Fields(tm, d)) <= n
        /\ \E tm \in Templates, d \in Descriptors : Len(Fields(tm, d)) = n

RECURSIVE TodoCount(_)
TodoCount(frames) ==
    IF frames = <<>> THEN 0
    ELSE Len(Head(frames).todo) + TodoCount(Tail(frames))

\* A bound on the match and construct steps thread t has still to take:
\* the values it can still start to construct, the running constructors
\* and the nested resolves they have still to make.
Rank(t) ==
    (FieldCount + 2) * Cardinality({d \in Descriptors : recCache[t][d] = 0})
        + Len(stack[t]) + TodoCount(stack[t])

\* Every step of a resolve lowers the bound of its thread.
StepsLowerRank ==
    \A t \in Threads : stack'[t] # stack[t] => Rank(t)' < Rank(t)

\* A running constructor can take its next step.
CanStep ==
    \A t \in Threads : stack[t] # <<>> => ENABLED (Nested(t) \/ Finish(t))

\* C2: resolving a value whose construction resolves the value again
\* terminates: the value is in the in-progress map of the thread while it
\* is under construction, a nested resolve of it on the same thread returns
\* a placeholder and never starts a second construction of it, and a
\* resolve takes only finitely many steps - a running constructor can
\* always take its next step and every step lowers a bound on the steps
\* that are left.
C2_ResolveTerminates ==
    /\ []NoReentry
    /\ []InProgressRecorded
    /\ []NestedReturnsPlaceholder
    /\ []CanStep
    /\ [][StepsLowerRank]_vars

\* A nested resolve of the value under construction has just returned the
\* placeholder from the in-progress map, two constructors deep.
C2_Witness ==
    /\ ret.kind = "nested"
    /\ ret.busy
    /\ ret.via = "rec"
    /\ ret.d = "A"
    /\ \E t \in Threads : Len(stack[t]) = 2 /\ stack[t][1].d = "A"

\* C3: two top level resolves of the same value with no registration
\* between them return the same chain of schema classes.
C3_RepeatedResolveEqual ==
    (ret.kind = "ok" /\ ret.prev # <<>>) => ret.h = ret.prev

\* C6: with no registration in between, registry.match returns for a value
\* the same schema classes in the same order on every call.
C6_MatchDeterministic ==
    (mret.sel # <<>> /\ mret.prev # <<>>) => mret.sel = mret.prev

\* The position in the order of the first schema class that matches d and
\* is not a wrapper, 0 if there is none.
FirstTerminal(vals, d) ==
    LET hits == {i \in 1..Len(vals) :
                    Matches(vals[i].value, d) /\ ~IsWrapper(vals[i].value)}
    IN IF hits = {} THEN 0
       ELSE CHOOSE i \in hits : \A j \in hits : i <= j

\* The schema classes of the order, in order.
OrderValues(vals) == [i \in 1..Len(vals) |-> vals[i].value]

MatchingWrapper(d, tm) == IsWrapper(tm) /\ Matches(tm, d)

\* The wrappers matching d in front of position k, then the class at k.
SelectionUpTo(vals, d, k) ==
    LET IsHit(tm) == MatchingWrapper(d, tm)
    IN Append(SelectSeq(SubSeq(OrderValues(vals), 1, k - 1), IsHit),
              vals[k].value)

\* C11: registry.match(D) returns the wrappers that match D and precede the
\* first matching class that is not a wrapper, in priority order, followed
\* by that class; it raises exactly when no class that is not a wrapper
\* matches D.
C11_MatchSelection ==
    /\ mret.sel # <<>> =>
          /\ FirstTerminal(_values, mret.d) # 0
          /\ mret.sel = SelectionUpTo(_values, mret.d,
                                      FirstTerminal(_values, mret.d))
    /\ ret.kind = "error" => FirstTerminal(_values, ret.d) = 0

\* SchemaSelection docstring: one or more schema classes, all but the last
\* one being wrappers.
WellFormed(sel) ==
    /\ sel # <<>>
    /\ ~IsWrapper(sel[Len(sel)])
    /\ \A i \in 1..(Len(sel) - 1) : IsWrapper(sel[i])

\* self[1:], the chain a wrapper handler is constructed with.
Wrapped(h) == Tail(h)

\* The handlers that exist: cached, just returned, under construction.
Handlers ==
    {buildCache[d] : d \in Descriptors}
        \cup {ret.h}
        \cup UNION {{stack[t][i].chain : i \in 1..Len(stack[t])} : t \in Threads}

\* C12: every selection - returned by registry.match, held by the cache of
\* match or by an in-progress map (both hold the list objects of the heap),
\* or passed as the wrapped chain to a wrapper handler - is non-empty, ends
\* in a class that is not a wrapper and has only wrappers before it.
C12_SelectionsWellFormed ==
    /\ mret.sel # <<>> => WellFormed(mret.sel)
    /\ \A o \in ObjIds : heap[o] # <<>> => WellFormed(heap[o])
    /\ \A h \in Handlers : Len(h) > 1 => WellFormed(Wrapped(h))

\* The in-progress map and the cache of match hold a selection with a
\* registered wrapper, and a handler built from it was returned.
C12_Witness ==
    /\ \E o \in ObjIds : heap[o] = <<"Recursive", "Tagged", "Record">>
    /\ mret.sel = <<"Tagged", "Record">>
    /\ ret.kind = "ok"
    /\ ret.h = <<"Tagged", "Record">>

\* C17 as stated: the threads keep apart what they record for the values
\* they resolve: the selection list in the recursive cache of a thread is
\* one that thread made, no other thread reads or changes it, and a top
\* level resolve that found nothing in the recursive cache of its own
\* thread returns a handler of the matching schema classes, never a
\* placeholder.
C17_ThreadsKeepApart ==
    /\ \A t \in Threads : \A d \in Descriptors : recCache[t][d] \in {0, t}
    /\ (ret.kind = "ok" /\ ret.via = "new") => Head(ret.h) # "Recursive"

\* Whether s ends with the sequence tail.
EndsWith(s, tail) ==
    /\ Len(tail) <= Len(s)
    /\ SubSeq(s, Len(s) - Len(tail) + 1, Len(s)) = tail

\* The list recorded for d in the in-progress map of thread t.
Recorded(t, d) == heap[<<d, recCache[t][d]>>]

\* C23: while a constructor for a value runs on a thread, the in-progress
\* map of that thread holds for the value a list with the placeholder in
\* front that ends with the selection under construction; a nested resolve
\* of such a value returns a placeholder in a step that does not call
\* registry.match, and no second constructor for the value is started.
C23_RecordedBeforeConstruction ==
    /\ \A t \in Threads : \A i \in 1..Len(stack[t]) :
           /\ recCache[t][stack[t][i].d] # 0
           /\ Head(Recorded(t, stack[t][i].d)) = "Recursive"
           /\ EndsWith(Recorded(t, stack[t][i].d), stack[t][i].chain)
           /\ \A j \in 1..Len(stack[t]) :
                  stack[t][j].d = stack[t][i].d => j = i
    /\ (ret.kind = "nested" /\ ret.busy) =>
           /\ Head(ret.h) = "Recursive"
           /\ mret = NoMret

\* The constructor of the union schema, started by the constructor of the
\* record schema, has resolved the record type again and got a placeholder
\* while both constructors are still running.
C23_Witness ==
    /\ ret.kind = "nested"
    /\ ret.busy
    /\ ret.d = "A"
    /\ Head(ret.h) = "Recursive"
    /\ mret = NoMret
    /\ \E t \in Threads :
           /\ Len(stack[t]) = 2
           /\ stack[t][1].d = "A"
           /\ stack[t][2].d = "OptA"
           /\ stack[t][2].todo = <<>>

\* C21 as stated: a placeholder is returned only for a value whose
\* constructor is running further up on the same thread: a top level
\* resolve never returns a placeholder, whatever earlier resolves left in
\* the recursive cache, and a nested resolve returns one only for a value
\* that is under construction on its thread.
C21_PlaceholderOnlyInProgress ==
    /\ ret.kind = "ok" => Head(ret.h) # "Recursive"
    /\ (ret.kind = "nested" /\ Head(ret.h) = "Recursive") => ret.busy

\* C15 as stated: when a schema constructor raises while a top level
\* UnmarshalSchema(value) call builds the handler, the call raises that
\* error: no handler is returned, neither to the caller of the top level
\* call nor to a constructor that waits for a nested resolve.
C15_ConstructionErrorRaised ==
    ret.err # "" => ret.kind = "raised"

\* ------------------------------------------------------ namespace dispatch
\* Namespace.__init__: fc and fs are the lru caches the instance wraps its
\* find_class and find_subclasses with.
Namespace(name, base) ==
    [name |-> name, base |-> base, components |-> <<>>,
     _schemas |-> [n \in ComponentNames |-> ""],
     fc |-> [cls \in Types |-> Miss],
     fs |-> [cls \in Types |-> Miss]]

\* Namespace.cache_clear
NamespaceCacheClear(namespace) ==
    [namespace EXCEPT !.fc = [cls \in Types |-> Miss],
                      !.fs = [cls \in Types |-> Miss]]

\* Namespace.__contains__
Contains(namespace, name) ==
    \E i \in 1..Len(namespace.components) :
        namespace.components[i].name = name

\* namespace.components[name]
ComponentOf(namespace, name) ==
    LET i == CHOOSE i \in 1..Len(namespace.components) :
                 namespace.components[i].name = name
    IN namespace.components[i].component

\* self.components[name] = component: a dict keeps the position of a key
\* that is assigned again.
SetComponent(components, name, component) ==
    IF \E i \in 1..Len(components) : components[i].name = name
    THEN [i \in 1..Len(components) |->
            IF components[i].name = name
            THEN [name |-> name, component |-> component]
            ELSE components[i]]
    ELSE Append(components, [name |-> name, component |-> component])

\* Namespace.find_class: the first name whose component is cls.
RECURSIVE FirstNameOf(_, _, _)
FirstNameOf(components, cls, i) ==
    IF i > Len(components) THEN NoneName
    ELSE IF components[i].component = cls THEN components[i].name
    ELSE FirstNameOf(components, cls, i + 1)

NamespaceFindClass(namespace, cls) ==
    IF ~IsSubclass(cls, namespace.base) THEN NoneName
    ELSE FirstNameOf(namespace.components, cls, 1)

\* A call through an lru cache: the value and the cache afterwards.
Through(cache, key, computed) ==
    IF cache[key].hit
    THEN [val |-> cache[key].val, cache |-> cache]
    ELSE [val |-> computed, cache |-> [cache EXCEPT ![key] = Hit(computed)]]

\* Namespaces.find_class (the function under the cache): the namespaces
\* are searched from the one created last to the one created first through
\* the cached find_class of each; a name that is not truthy is skipped.
\* The result holds the namespaces with their caches afterwards.
RECURSIVE FindClassFrom(_, _, _)
FindClassFrom(namespaces, cls, i) ==
    IF i < 1 THEN [val |-> NoneName, namespaces |-> namespaces]
    ELSE LET f == Through(namespaces[i].fc, cls,
                          NamespaceFindClass(namespaces[i], cls))
             after == [namespaces EXCEPT ![i].fc = f.cache]
         IN IF Truthy(f.val) THEN [val |-> f.val, namespaces |-> after]
            ELSE FindClassFrom(after, cls, i - 1)

find_class(namespaces, cls) == FindClassFrom(namespaces, cls, Len(namespaces))

\* Namespace.find_subclasses_iter: the names of the components that are
\* subclasses of cls, in the order of registration.
RECURSIVE SubclassesIn(_, _, _)
SubclassesIn(components, cls, i) ==
    IF i > Len(components) THEN <<>>
    ELSE (IF IsSubclass(components[i].component, cls)
          THEN <<components[i].name>> ELSE <<>>)
         \o SubclassesIn(components, cls, i + 1)

\* NamespaceUnmarshalSchema.find_namespace over the lazy result of
\* Namespaces.find_subclasses (find_subclasses_iter): the namespaces in the
\* order of creation, each through its cached find_subclasses, up to the
\* first one that holds a subclass of cls under the name. ns is 0 when no
\* namespace does (UnmarshalError).
RECURSIVE FindNamespaceFrom(_, _, _, _)
FindNamespaceFrom(namespaces, cls, name, i) ==
    IF i > Len(namespaces) THEN [ns |-> 0, namespaces |-> namespaces]
    ELSE LET f == Through(namespaces[i].fs, cls,
                          SubclassesIn(namespaces[i].components, cls, 1))
             after == [namespaces EXCEPT ![i].fs = f.cache]
         IN IF \E k \in 1..Len(f.val) : f.val[k] = name
            THEN [ns |-> i, namespaces |-> after]
            ELSE FindNamespaceFrom(after, cls, name, i + 1)

find_namespace(namespaces, cls, name) ==
    FindNamespaceFrom(namespaces, cls, name, 1)

\* Namespaces.find_namespaces_iter
RECURSIVE FindNamespacesFrom(_, _, _)
FindNamespacesFrom(namespaces, cls, i) ==
    IF i > Len(namespaces) THEN <<>>
    ELSE (IF IsSubclass(cls, namespaces[i].base) THEN <<i>> ELSE <<>>)
         \o FindNamespacesFrom(namespaces, cls, i + 1)

find_namespaces(namespaces, cls) == FindNamespacesFrom(namespaces, cls, 1)

\* hash(weakref.ref(namespaces)): the hash of a weak reference is the hash
\* of its referent, and Namespaces defines __eq__ (_SingletonMapping) and no
\* __hash__, so the key of a cached method of Namespaces (binding='weak')
\* cannot be built.
NamespacesHashable == FALSE

\* A call of a cached method of Namespaces (safe=True, binding='weak'):
\* lru_cache raises TypeError when it hashes the key and the function is
\* called directly, nothing is stored.
ThroughWeak(cache, key, computed) ==
    IF NamespacesHashable THEN Through(cache, key, computed)
    ELSE [val |-> computed, cache |-> cache]

\* The same for a method whose function returns a value and the namespaces
\* afterwards.
ThroughNamespaces(cache, key, namespaces, computed) ==
    IF NamespacesHashable /\ cache[key].hit
    THEN [val |-> cache[key].val, cache |-> cache, namespaces |-> namespaces]
    ELSE [val |-> computed.val,
          cache |-> IF NamespacesHashable
                    THEN [cache EXCEPT ![key] = Hit(computed.val)] ELSE cache,
          namespaces |-> computed.namespaces]

\* The caches and namespaces an operation of the namespace layer works on.
State ==
    [namespaces |-> _namespaces, fc |-> findClassCache,
     fs |-> findSubclassesCache, fn |-> findNamespacesCache,
     sc |-> schemaCache]

Store(st) ==
    /\ _namespaces' = st.namespaces
    /\ findClassCache' = st.fc
    /\ findSubclassesCache' = st.fs
    /\ findNamespacesCache' = st.fn
    /\ schemaCache' = st.sc

\* Whether the class is a dataclass with a field called `name`, so that its
\* own encoding is a mapping with the key 'name'.
ReservedField(cls) == cls = "Square"

\* marsh.schema.UnmarshalSchema(cls) as far as the namespace layer sees it:
\* whether NamespaceUnmarshalSchema (match: bool(find_namespaces(cls)))
\* wraps the handler; the handler comes from the cache of _cached_build
\* when it is there.
Schema(st, cls) ==
    IF st.sc[cls] # "miss"
    THEN [kind |-> st.sc[cls], st |-> st]
    ELSE LET f == ThroughWeak(st.fn, cls, find_namespaces(st.namespaces, cls))
             kind == IF f.val # <<>> THEN "wrapped" ELSE "plain"
         IN [kind |-> kind,
             st |-> [st EXCEPT !.sc[cls] = kind, !.fn = f.cache]]

\* Namespace.__getitem__ on namespace ns: the class the schema kept for
\* the name constructs; the schema is built from components[name] and kept
\* in _schemas the first time.
GetItem(st, ns, name) ==
    IF ~Contains(st.namespaces[ns], name)
    THEN [cls |-> "KeyError", st |-> st]
    ELSE IF st.namespaces[ns]._schemas[name] # ""
    THEN [cls |-> st.namespaces[ns]._schemas[name], st |-> st]
    ELSE LET component == ComponentOf(st.namespaces[ns], name)
             h == Schema(st, component)
         IN [cls |-> component,
             st |-> [h.st EXCEPT !.namespaces[ns]._schemas[name] = component]]

\* Encode that leaves out the test for the key 'name' in the encoding.
EncodeOverwrite(st, cls, own) ==
    LET f == ThroughNamespaces(st.fc, cls, st.namespaces,
                               find_class(st.namespaces, cls))
        after == [st EXCEPT !.fc = f.cache, !.namespaces = f.namespaces]
    IN IF Truthy(f.val)
       THEN [name |-> f.val, st |-> after]
       ELSE [name |-> IF ReservedField(cls) THEN own ELSE NoneName,
             st |-> after]

\* marsh.marshal(value) for an instance of cls whose field `name`, if it
\* has one, holds own: the value under the key 'name' in the encoding
\* (NoneName: no such key), or MarshalError.
\* NamespaceMarshalSchema.match is bool(find_class(type)); its __init__
\* reads find_class again and marshal() refuses an encoding with 'name'.
Encode(st, cls, own) ==
    LET f == ThroughNamespaces(st.fc, cls, st.namespaces,
                               find_class(st.namespaces, cls))
        after == [st EXCEPT !.fc = f.cache, !.namespaces = f.namespaces]
    IN IF Truthy(f.val)
       THEN [name |-> IF ReservedField(cls) THEN "MarshalError" ELSE f.val,
             st |-> after]
       ELSE [name |-> IF ReservedField(cls) THEN own ELSE NoneName,
             st |-> after]

\* marsh.unmarshal(base, element) for a mapping element that holds name
\* under the key 'name' (NoneName: no such key): the class whose handler
\* decodes the element, the namespace the name was dispatched to (0: none)
\* and the state afterwards.
Decode(st, base, name) ==
    LET h == Schema(st, base)
    IN IF h.kind = "plain"
       \* the handler of base itself: the key is one of its fields or unknown
       THEN [cls |-> IF name = NoneName \/ ReservedField(base)
                     THEN base ELSE "UnmarshalError",
             dns |-> 0, st |-> h.st]
       ELSE IF name = NoneName
       THEN [cls |-> base, dns |-> 0, st |-> h.st]
       \* Namespaces.find_subclasses is called directly (ThroughWeak)
       ELSE LET f == find_namespace(h.st.namespaces, base, name)
                after == [h.st EXCEPT !.namespaces = f.namespaces]
            IN IF f.ns = 0
               THEN [cls |-> "UnmarshalError", dns |-> 0, st |-> after]
               ELSE LET g == GetItem(after, f.ns, name)
                    IN [cls |-> g.cls, dns |-> f.ns, st |-> g.st]

\* Whether a cache of the namespace and the cache of _cached_build hold an
\* entry.
Cached(namespace) ==
    /\ \E cls \in Types : namespace.fc[cls].hit \/ namespace.fs[cls].hit
    /\ \E cls \in Types : schemaCache[cls] # "miss"

\* Namespaces.new(name, base)
new(name, base) ==
    /\ IF \E i \in 1..Len(_namespaces) : _namespaces[i].name = name
       THEN /\ nsRes' = [NoNsRes EXCEPT !.op = "new", !.res = "MarshError"]
            /\ UNCHANGED _namespaces
       ELSE /\ _namespaces' = Append(_namespaces, Namespace(name, base))
            /\ nsRes' = [NoNsRes EXCEPT !.op = "new", !.res = "ok",
                                        !.ns = Len(_namespaces) + 1]
    /\ UNCHANGED <<findClassCache, findSubclassesCache, findNamespacesCache,
                   schemaCache, registrations>>
    /\ UNCHANGED <<varsPO, varsRS, varsCA, varsUT>>

\* Register that leaves out `self._schemas.pop(name, None)`.
RegisterKeepSchema(ns, component, name, replace) ==
    LET namespace == _namespaces[ns]
        before == IF Contains(namespace, name)
                  THEN ComponentOf(namespace, name) ELSE ""
        res == [NoNsRes EXCEPT !.op = "register", !.ns = ns, !.name = name,
                               !.component = component, !.replace = replace,
                               !.before = before, !.had = Cached(namespace)]
        popped == _namespaces
    IN IF Contains(namespace, name) /\ ~replace
       THEN [res |-> [res EXCEPT !.res = "MarshError"],
             namespaces |-> _namespaces, clear |-> FALSE]
       ELSE IF ~IsSubclass(component, namespace.base)
       THEN [res |-> [res EXCEPT !.res = "ValueError"],
             namespaces |-> popped, clear |-> FALSE]
       ELSE [res |-> [res EXCEPT !.res = "ok"],
             namespaces |-> [popped EXCEPT ![ns] = NamespaceCacheClear(
                 [@ EXCEPT !.components = SetComponent(@, name, component)])],
             clear |-> TRUE]

\* Register that leaves out `self.cache_clear()`.
RegisterKeepOwnCaches(ns, component, name, replace) ==
    LET namespace == _namespaces[ns]
        before == IF Contains(namespace, name)
                  THEN ComponentOf(namespace, name) ELSE ""
        res == [NoNsRes EXCEPT !.op = "register", !.ns = ns, !.name = name,
                               !.component = component, !.replace = replace,
                               !.before = before, !.had = Cached(namespace)]
        popped == [_namespaces EXCEPT ![ns]._schemas[name] = ""]
    IN IF Contains(namespace, name) /\ ~replace
       THEN [res |-> [res EXCEPT !.res = "MarshError"],
             namespaces |-> _namespaces, clear |-> FALSE]
       ELSE IF ~IsSubclass(component, namespace.base)
       THEN [res |-> [res EXCEPT !.res = "ValueError"],
             namespaces |-> popped, clear |-> FALSE]
       ELSE [res |-> [res EXCEPT !.res = "ok"],
             namespaces |-> [popped EXCEPT ![ns].components =
                                SetComponent(@, name, component)],
             clear |-> TRUE]

\* Register that leaves out the three cache_clear() calls.
RegisterNoClear(ns, component, name, replace) ==
    LET namespace == _namespaces[ns]
        before == IF Contains(namespace, name)
                  THEN ComponentOf(namespace, name) ELSE ""
        res == [NoNsRes EXCEPT !.op = "register", !.ns = ns, !.name = name,
                               !.component = component, !.replace = replace,
                               !.before = before, !.had = Cached(namespace)]
        popped == [_namespaces EXCEPT ![ns]._schemas[name] = ""]
    IN IF Contains(namespace, name) /\ ~replace
       THEN [res |-> [res EXCEPT !.res = "MarshError"],
             namespaces |-> _namespaces, clear |-> FALSE]
       ELSE IF ~IsSubclass(component, namespace.base)
       THEN [res |-> [res EXCEPT !.res = "ValueError"],
             namespaces |-> popped, clear |-> FALSE]
       ELSE [res |-> [res EXCEPT !.res = "ok"],
             namespaces |-> [popped EXCEPT ![ns].components =
                                SetComponent(@, name, component)],
             clear |-> FALSE]

\* Namespace.register(component, name=name, replace=replace): the outcome,
\* the namespaces afterwards (on success with the caches of the namespace
\* cleared) and whether the caches of Namespaces and of UnmarshalSchema are
\* cleared.
Register(ns, component, name, replace) ==
    LET namespace == _namespaces[ns]
        before == IF Contains(namespace, name)
                  THEN ComponentOf(namespace, name) ELSE ""
        res == [NoNsRes EXCEPT !.op = "register", !.ns = ns, !.name = name,
                               !.component = component, !.replace = replace,
                               !.before = before, !.had = Cached(namespace)]
        popped == [_namespaces EXCEPT ![ns]._schemas[name] = ""]
    IN IF Contains(namespace, name) /\ ~replace
       THEN [res |-> [res EXCEPT !.res = "MarshError"],
             namespaces |-> _namespaces, clear |-> FALSE]
       ELSE IF ~IsSubclass(component, namespace.base)
       THEN [res |-> [res EXCEPT !.res = "ValueError"],
             namespaces |-> popped, clear |-> FALSE]
       ELSE [res |-> [res EXCEPT !.res = "ok"],
             namespaces |-> [popped EXCEPT ![ns] = NamespaceCacheClear(
                 [@ EXCEPT !.components = SetComponent(@, name, component)])],
             clear |-> TRUE]

\* namespace.register(component, name=name, replace=replace) on the
\* namespace at position ns; on success the caches of the namespaces and
\* of UnmarshalSchema are cleared.
NamespaceRegister(ns, component, name, replace) ==
    /\ registrations < MaxRegistrations
    /\ LET r == Register(ns, component, name, replace)
       IN /\ nsRes' = r.res
          /\ _namespaces' = r.namespaces
          /\ registrations' = IF r.res.res = "ok"
                               THEN registrations + 1 ELSE registrations
          /\ IF r.clear
             THEN /\ findClassCache' = [cls \in Types |-> Miss]
                  /\ findSubclassesCache' = [cls \in Types |-> Miss]
                  /\ findNamespacesCache' = [cls \in Types |-> Miss]
                  /\ schemaCache' = [cls \in Types |-> "miss"]
             ELSE UNCHANGED <<findClassCache, findSubclassesCache,
                              findNamespacesCache, schemaCache>>
    /\ UNCHANGED <<varsPO, varsRS, varsCA, varsUT>>

\* Namespace.build(element, name=name) on the namespace at position ns: a
\* name that is not registered raises UnmarshalError, else the schema of
\* self[name] decodes the element.
NamespaceBuild(ns, name) ==
    /\ LET g == GetItem(State, ns, name)
       IN /\ Store(g.st)
          /\ nsRes' = IF g.cls = "KeyError"
                      THEN [NoNsRes EXCEPT !.op = "build", !.ns = ns,
                                           !.name = name, !.enc = name,
                                           !.dec = "UnmarshalError"]
                      ELSE [NoNsRes EXCEPT !.op = "build", !.ns = ns,
                                           !.name = name, !.enc = name,
                                           !.dec = g.cls, !.dns = ns]
    /\ UNCHANGED registrations
    /\ UNCHANGED <<varsPO, varsRS, varsCA, varsUT>>

\* The values the field `name` of an instance of the component at position
\* k of namespace ns can hold (NoneName: the class has no such field).
FieldValues(ns, k) ==
    IF k \in 1..Len(_namespaces[ns].components)
       /\ ReservedField(_namespaces[ns].components[k].component)
    THEN ComponentNames ELSE {NoneName}

\* marsh.unmarshal(base, marsh.marshal(v)) for an instance v of the
\* component registered at position k of the namespace at position ns, base
\* being the base of that namespace; own is the value of the field `name`
\* of v when its class has such a field. When marshal raises nothing is
\* decoded.
RoundTrip(ns, k, own) ==
    /\ k \in 1..Len(_namespaces[ns].components)
    /\ LET entry == _namespaces[ns].components[k]
           e == Encode(State, entry.component, own)
           d == IF e.name = "MarshalError"
                THEN [cls |-> "", dns |-> 0, st |-> e.st]
                ELSE Decode(e.st, _namespaces[ns].base, e.name)
       IN /\ Store(d.st)
          /\ nsRes' = [NoNsRes EXCEPT !.op = "roundtrip", !.ns = ns,
                                      !.name = entry.name,
                                      !.component = entry.component,
                                      !.enc = e.name, !.dec = d.cls,
                                      !.dns = d.dns, !.own = own]
    /\ UNCHANGED registrations
    /\ UNCHANGED <<varsPO, varsRS, varsCA, varsUT>>

\* marsh.unmarshal(base, element) for a mapping element that holds name
\* under the key 'name' (NoneName: the element has no such key).
Unmarshal(base, name) ==
    /\ LET d == Decode(State, base, name)
       IN /\ Store(d.st)
          /\ nsRes' = [NoNsRes EXCEPT !.op = "unmarshal", !.component = base,
                                      !.enc = name, !.dec = d.cls,
                                      !.dns = d.dns]
    /\ UNCHANGED registrations
    /\ UNCHANGED <<varsPO, varsRS, varsCA, varsUT>>

\* The state after import: the built-in schema classes are registered, no
\* namespace exists.
InitNS == InitRS

NextNS ==
    \/ \E name \in NamespaceNames, base \in Bases : new(name, base)
    \/ \E ns \in 1..Len(_namespaces), component \in Components,
          name \in ComponentNames, replace \in BOOLEAN :
           NamespaceRegister(ns, component, name, replace)
    \/ \E ns \in 1..Len(_namespaces), name \in ComponentNames :
           NamespaceBuild(ns, name)
    \/ \E ns \in 1..Len(_namespaces), k \in 1..MaxRegistrations :
           \E own \in FieldValues(ns, k) : RoundTrip(ns, k, own)

SpecNS == InitNS /\ [][NextNS]_vars

\* Decoding with and without a name against any class, between the creation
\* of namespaces and registrations under the names of DispatchNames.
DispatchNames == {"x"}

InitND == InitRS

NextND ==
    \/ \E name \in NamespaceNames, base \in Bases : new(name, base)
    \/ \E ns \in 1..Len(_namespaces), component \in Components,
          name \in DispatchNames, replace \in BOOLEAN :
           NamespaceRegister(ns, component, name, replace)
    \/ \E base \in Types, name \in DispatchNames \cup {NoneName} :
           Unmarshal(base, name)

SpecND == InitND /\ [][NextND]_vars

\* ------------------------------- Namespace.register used as a decorator
MaxDecorators == 2

\* register(name=name, replace=replace) without a component, on the
\* namespace at position ns: the test of the name and the pop of the kept
\* schema run now, the inner function _register is returned.
RegisterDecorator(ns, name, replace) ==
    /\ Cardinality(decorators) < MaxDecorators
    /\ [ns |-> ns, name |-> name] \notin decorators
    /\ LET namespace == _namespaces[ns]
           res == [NoNsRes EXCEPT !.op = "decorator", !.ns = ns,
                                  !.name = name, !.replace = replace]
       IN IF Contains(namespace, name) /\ ~replace
          THEN /\ nsRes' = [res EXCEPT !.res = "MarshError"]
               /\ UNCHANGED <<_namespaces, decorators>>
          ELSE /\ nsRes' = [res EXCEPT !.res = "ok"]
               /\ _namespaces' = [_namespaces EXCEPT ![ns]._schemas[name] = ""]
               /\ decorators' = decorators \cup {[ns |-> ns, name |-> name]}
    /\ UNCHANGED <<findClassCache, findSubclassesCache, findNamespacesCache,
                   schemaCache, registrations>>
    /\ UNCHANGED <<varsPO, varsRS, varsCA, varsMT, varsSD, varsIT, varsIG>>

\* The decorator is applied to a class: the inner function _register runs.
ApplyDecorator(dec, component) ==
    /\ dec \in decorators
    /\ registrations < MaxRegistrations
    /\ decorators' = decorators \ {dec}
    /\ LET namespace == _namespaces[dec.ns]
           res == [NoNsRes EXCEPT !.op = "apply", !.ns = dec.ns,
                                  !.name = dec.name, !.component = component]
       IN IF ~IsSubclass(component, namespace.base)
          THEN /\ nsRes' = [res EXCEPT !.res = "ValueError"]
               /\ UNCHANGED <<_namespaces, findClassCache, findSubclassesCache,
                              findNamespacesCache, schemaCache, registrations>>
          ELSE /\ nsRes' = [res EXCEPT !.res = "ok"]
               /\ _namespaces' = [_namespaces EXCEPT ![dec.ns] =
                      NamespaceCacheClear([@ EXCEPT !.components =
                          SetComponent(@, dec.name, component)])]
               /\ findClassCache' = [cls \in Types |-> Miss]
               /\ findSubclassesCache' = [cls \in Types |-> Miss]
               /\ findNamespacesCache' = [cls \in Types |-> Miss]
               /\ schemaCache' = [cls \in Types |-> "miss"]
               /\ registrations' = registrations + 1
    /\ UNCHANGED <<varsPO, varsRS, varsCA, varsMT, varsSD, varsIT, varsIG>>

InitNR == InitRS

NextNR ==
    \/ \E name \in NamespaceNames, base \in Bases : new(name, base)
    \/ \E ns \in 1..Len(_namespaces), component \in Components,
          name \in DispatchNames, replace \in BOOLEAN :
           NamespaceRegister(ns, component, name, replace)
    \/ \E ns \in 1..Len(_namespaces), name \in DispatchNames,
          replace \in BOOLEAN : RegisterDecorator(ns, name, replace)
    \/ \E dec \in decorators, component \in Components :
           ApplyDecorator(dec, component)
    \/ \E ns \in 1..Len(_namespaces), name \in DispatchNames :
           NamespaceBuild(ns, name)

SpecNR == InitNR /\ [][NextNR]_vars

\* The schema a namespace keeps for a name was built from the component
\* that is registered under the name now.
KeptSchemasCurrent ==
    \A ns \in 1..Len(_namespaces) : \A name \in ComponentNames :
        _namespaces[ns]._schemas[name] # "" =>
            /\ Contains(_namespaces[ns], name)
            /\ _namespaces[ns]._schemas[name] = ComponentOf(_namespaces[ns], name)

\* C29: in every state, the schema a namespace keeps for a name was built
\* from the component registered under the name at that time, also when
\* register is used as a decorator and lookups of the name or other
\* registrations come between the call of register and the application of
\* the decorator.
C29_KeptSchemaOfCurrentComponent ==
    \A ns \in 1..Len(_namespaces) : \A name \in DispatchNames :
        _namespaces[ns]._schemas[name] # "" =>
            _namespaces[ns]._schemas[name] = ComponentOf(_namespaces[ns], name)

NoEntries(cache) == \A cls \in Types : ~cache[cls].hit

\* Every entry of the find_class and find_subclasses cache of a namespace
\* is what the function returns for the components registered now.
NamespaceCachesCurrent ==
    \A ns \in 1..Len(_namespaces) : \A cls \in Types :
        LET namespace == _namespaces[ns]
        IN /\ namespace.fc[cls].hit =>
                namespace.fc[cls].val = NamespaceFindClass(namespace, cls)
           /\ namespace.fs[cls].hit =>
                namespace.fs[cls].val = SubclassesIn(namespace.components, cls, 1)

\* C13: after a successful Namespace.register the find_class and
\* find_subclasses caches of that namespace, the caches of the lookups
\* across namespaces and the cache of resolved handlers are empty; with
\* that, whatever a cache of a namespace holds at any time was computed
\* from the components registered now, so the next lookup or resolve sees
\* the new registration.
C13_RegisterClearsCaches ==
    /\ (nsRes.op = "register" /\ nsRes.res = "ok") =>
          /\ NoEntries(_namespaces[nsRes.ns].fc)
          /\ NoEntries(_namespaces[nsRes.ns].fs)
          /\ NoEntries(findClassCache)
          /\ NoEntries(findSubclassesCache)
          /\ NoEntries(findNamespacesCache)
          /\ \A cls \in Types : schemaCache[cls] = "miss"
    /\ NamespaceCachesCurrent

\* A second component was just registered in a namespace whose caches and
\* the cache of resolved handlers held entries.
C13_Witness ==
    /\ nsRes.op = "register"
    /\ nsRes.res = "ok"
    /\ nsRes.had
    /\ Len(_namespaces[nsRes.ns].components) = 2
    /\ NoEntries(_namespaces[nsRes.ns].fc)

\* What UnmarshalSchema(cls) builds without a cache: NamespaceUnmarshalSchema
\* wraps the handler when a namespace has a base that cls is a subclass of.
FreshSchema(cls) ==
    IF find_namespaces(_namespaces, cls) # <<>> THEN "wrapped" ELSE "plain"

\* C14 as stated: every cached lookup returns what an uncached recomputation
\* against the namespaces of the moment returns: the handler the resolve
\* cache holds for a class is the handler a fresh resolve builds, and the
\* find_class and find_subclasses entries of every namespace equal their
\* recomputation.
C14_NoStaleResult ==
    /\ \A cls \in Types :
          schemaCache[cls] # "miss" => schemaCache[cls] = FreshSchema(cls)
    /\ NamespaceCachesCurrent

\* The namespaces, in the order of creation, that hold a subclass of base
\* under the name.
Holding(base, name) ==
    {i \in 1..Len(_namespaces) :
        \E k \in 1..Len(_namespaces[i].components) :
            /\ _namespaces[i].components[k].name = name
            /\ IsSubclass(_namespaces[i].components[k].component, base)}

\* C18 as stated: decoding against a base that a namespace exists for. An
\* element with the key 'name' is decoded by the handler of the component
\* registered under that name, a name no component has gives an
\* UnmarshalError; an element without the key is decoded as the base.
C18_DecodeByName ==
    (/\ nsRes.op = "unmarshal"
     /\ find_namespaces(_namespaces, nsRes.component) # <<>>) =>
        IF nsRes.enc = NoneName THEN nsRes.dec = nsRes.component
        ELSE IF Holding(nsRes.component, nsRes.enc) = {}
        THEN nsRes.dec = "UnmarshalError"
        ELSE LET first == CHOOSE i \in Holding(nsRes.component, nsRes.enc) :
                              \A j \in Holding(nsRes.component, nsRes.enc) :
                                  i <= j
             IN nsRes.dec = ComponentOf(_namespaces[first], nsRes.enc)

\* The names the class is registered under, in any namespace.
NamesOf(cls) ==
    {_namespaces[i].components[k].name :
        <<i, k>> \in {p \in (1..Len(_namespaces)) \X (1..MaxRegistrations) :
            /\ p[2] <= Len(_namespaces[p[1]].components)
            /\ _namespaces[p[1]].components[p[2]].component = cls}}

FirstName(i, cls) ==
    LET at == {k \in 1..Len(_namespaces[i].components) :
                  _namespaces[i].components[k].component = cls}
    IN IF at = {} THEN NoneName
       ELSE _namespaces[i].components[CHOOSE k \in at : \A j \in at : k <= j].name

\* The namespaces in which the first name of the class is not empty.
Named(cls) == {i \in 1..Len(_namespaces) : Truthy(FirstName(i, cls))}

C10_RoundTripAlways ==
    nsRes.op = "roundtrip" =>
        /\ nsRes.enc = nsRes.name
        /\ nsRes.dec = nsRes.component

\* The name is not empty, the component has no field called `name`, it is
\* registered under no other name in any namespace, and no namespace has
\* another subclass of the base registered under the name.
Unambiguous(ns, name, component) ==
    /\ name # ""
    /\ ~ReservedField(component)
    /\ \A j \in 1..Len(_namespaces) : \A k \in 1..Len(_namespaces[j].components) :
         LET entry == _namespaces[j].components[k]
         IN /\ entry.component = component => entry.name = name
            /\ (entry.name = name /\ IsSubclass(entry.component, _namespaces[ns].base))
                  => entry.component = component

\* C10: for a component registered under a non-empty name in a namespace,
\* where the component has no field called `name`, has no other name in any
\* namespace and no other subclass of the base has that name in any
\* namespace, encoding an instance carries the name and decoding the
\* encoding for the base yields an instance of the component.
C10_RoundTripUnambiguous ==
    (nsRes.op = "roundtrip" /\ Unambiguous(nsRes.ns, nsRes.name, nsRes.component)) =>
        /\ nsRes.enc = nsRes.name
        /\ nsRes.dec = nsRes.component

\* A round trip through a component of the second of two namespaces that
\* both hold a component.
C10_Witness ==
    /\ nsRes.op = "roundtrip"
    /\ Len(_namespaces) = 2
    /\ nsRes.ns = 2
    /\ _namespaces[1].components # <<>>
    /\ Unambiguous(nsRes.ns, nsRes.name, nsRes.component)
    /\ nsRes.dec = nsRes.component


\* ------------------------------------------------------------------ caches
\* unsafe_delegating_func of cache(): with the cache disabled the function
\* is called; else lru_cache builds the key (TypeError for an argument
\* that is not hashable, before anything is counted), returns a stored
\* result as a hit, or counts a miss, calls the function and stores what it
\* returns. An error of the function is not stored.
UnsafeCall(fc, a) ==
    IF fc.disabled
    THEN [out |-> Func(a), calls |-> 1, fc |-> fc]
    ELSE IF ~ArgHashable(a)
    THEN [out |-> "TypeError", calls |-> 0, fc |-> fc]
    ELSE IF fc.store[a] # NoResult
    THEN [out |-> fc.store[a], calls |-> 0,
          fc |-> [fc EXCEPT !.hits = @ + 1]]
    ELSE IF IsError(Func(a))
    THEN [out |-> Func(a), calls |-> 1,
          fc |-> [fc EXCEPT !.misses = @ + 1]]
    ELSE [out |-> Func(a), calls |-> 1,
          fc |-> [fc EXCEPT !.misses = @ + 1, !.store[a] = Func(a)]]

\* The wrapped function as the caller sees it: with safe=True a TypeError
\* of unsafe_delegating_func is answered with `return func(*args, **kwargs)`.
WrappedCall(fc, a) ==
    LET r == UnsafeCall(fc, a)
    IN IF fc.safe /\ r.out = "TypeError"
       THEN [out |-> Func(a), calls |-> r.calls + 1, fc |-> r.fc]
       ELSE r

\* wrapped(arg)
CacheCall(a) ==
    /\ caOps < MaxOps
    /\ LET r == WrappedCall(fcache, a)
       IN /\ fcache' = r.fc
          /\ caRes' = [NoCaRes EXCEPT !.op = "call", !.arg = a, !.out = r.out,
                                      !.calls = r.calls, !.before = fcache]
          /\ bypassed' = IF fcache.disabled /\ fcache.store[a] # NoResult
                         THEN bypassed \cup {<<"f", a>>} ELSE bypassed
    /\ caOps' = caOps + 1
    /\ UNCHANGED <<vcache, storedUnder>>
    /\ UNCHANGED <<varsPO, varsRS, varsNS, varsUT>>

\* wrapped.cache_clear(): lru_cache empties the store and resets the
\* counters.
CacheClear(fc) ==
    [fc EXCEPT !.store = [a \in Args |-> NoResult], !.hits = 0, !.misses = 0]

\* wrapped.cache_disable() / wrapped.cache_enable()
CacheDisable(fc) == [fc EXCEPT !.disabled = TRUE]

CacheEnable(fc) == [fc EXCEPT !.disabled = FALSE]

\* ValueGet that counts a miss when the cache is disabled.
ValueGetCounting(vc, k) ==
    IF vc._disabled
    THEN [out |-> "KeyError", vc |-> [vc EXCEPT !._misses = @ + 1]]
    ELSE IF vc._cache[MakeKey(k)] # NoResult
    THEN [out |-> vc._cache[MakeKey(k)], vc |-> [vc EXCEPT !._hits = @ + 1]]
    ELSE [out |-> "KeyError", vc |-> [vc EXCEPT !._misses = @ + 1]]

\* ValueCache.__getitem__
ValueGet(vc, k) ==
    IF vc._disabled
    THEN [out |-> "KeyError", vc |-> vc]
    ELSE IF vc._cache[MakeKey(k)] # NoResult
    THEN [out |-> vc._cache[MakeKey(k)], vc |-> [vc EXCEPT !._hits = @ + 1]]
    ELSE [out |-> "KeyError", vc |-> [vc EXCEPT !._misses = @ + 1]]

\* ValueCache.__setitem__
ValueSet(vc, k, v) ==
    IF vc._disabled THEN vc ELSE [vc EXCEPT !._cache[MakeKey(k)] = v]

\* ValueCache.__delitem__: permitted while the cache is disabled.
ValueDel(vc, k) ==
    IF vc._cache[MakeKey(k)] = NoResult
    THEN [out |-> "KeyError", vc |-> vc]
    ELSE [out |-> NoResult, vc |-> [vc EXCEPT !._cache[MakeKey(k)] = NoResult]]

\* ValueCache.cache_clear
ValueClear(vc) ==
    [vc EXCEPT !._cache = [h \in StoreKeys |-> NoResult],
               !._hits = 0, !._misses = 0]

\* ValueCache.cache_disable / cache_enable
ValueDisable(vc) == [vc EXCEPT !._disabled = TRUE]

ValueEnable(vc) == [vc EXCEPT !._disabled = FALSE]

\* The entries that were asked for while disabled and are still stored.
StillStored(fc, vc, entries) ==
    {e \in entries :
        \/ e[1] = "f" /\ fc.store[e[2]] # NoResult
        \/ e[1] = "v" /\ vc._cache[e[2]] # NoResult}

\* cache[key]
ValueCacheGet(k) ==
    /\ caOps < MaxOps
    /\ LET r == ValueGet(vcache, k)
       IN /\ vcache' = r.vc
          /\ caRes' = [NoCaRes EXCEPT !.op = "get", !.key = k, !.out = r.out,
                                      !.vbefore = vcache]
          /\ bypassed' = IF /\ vcache._disabled
                            /\ vcache._cache[MakeKey(k)] # NoResult
                         THEN bypassed \cup {<<"v", MakeKey(k)>>}
                         ELSE bypassed
    /\ caOps' = caOps + 1
    /\ UNCHANGED <<fcache, storedUnder>>
    /\ UNCHANGED <<varsPO, varsRS, varsNS, varsUT>>

\* cache[key] = value
ValueCacheSet(k, v) ==
    /\ caOps < MaxOps
    /\ vcache' = ValueSet(vcache, k, v)
    /\ caRes' = [NoCaRes EXCEPT !.op = "set", !.key = k, !.out = v,
                                !.vbefore = vcache]
    /\ storedUnder' = IF vcache._disabled THEN storedUnder
                      ELSE [storedUnder EXCEPT ![MakeKey(k)] = k]
    /\ caOps' = caOps + 1
    /\ UNCHANGED <<fcache, bypassed>>
    /\ UNCHANGED <<varsPO, varsRS, varsNS, varsUT>>

\* del cache[key]
ValueCacheDel(k) ==
    /\ caOps < MaxOps
    /\ LET r == ValueDel(vcache, k)
       IN /\ vcache' = r.vc
          /\ caRes' = [NoCaRes EXCEPT !.op = "del", !.key = k, !.out = r.out,
                                      !.vbefore = vcache]
          /\ bypassed' = StillStored(fcache, r.vc, bypassed)
          /\ storedUnder' = IF r.out = "KeyError" THEN storedUnder
                            ELSE [storedUnder EXCEPT ![MakeKey(k)] = 0]
    /\ caOps' = caOps + 1
    /\ UNCHANGED fcache
    /\ UNCHANGED <<varsPO, varsRS, varsNS, varsUT>>

\* cache_clear(), cache_disable() or cache_enable() on the wrapped
\* function ("f"), on the ValueCache ("v") or on the CachePool that holds
\* both ("pool": the same call on every cache of the pool).
Control(op, on) ==
    /\ caOps < MaxOps
    /\ LET fc == IF on = "v" THEN fcache
                 ELSE CASE op = "clear" -> CacheClear(fcache)
                        [] op = "disable" -> CacheDisable(fcache)
                        [] op = "enable" -> CacheEnable(fcache)
           vc == IF on = "f" THEN vcache
                 ELSE CASE op = "clear" -> ValueClear(vcache)
                        [] op = "disable" -> ValueDisable(vcache)
                        [] op = "enable" -> ValueEnable(vcache)
       IN /\ fcache' = fc
          /\ vcache' = vc
          /\ storedUnder' = IF on # "f" /\ op = "clear" THEN NoWriters
                            ELSE storedUnder
          /\ bypassed' = StillStored(fc, vc, bypassed)
    /\ caRes' = [NoCaRes EXCEPT !.op = op, !.arg = on, !.before = fcache,
                                !.vbefore = vcache]
    /\ caOps' = caOps + 1
    /\ UNCHANGED <<varsPO, varsRS, varsNS, varsUT>>

\* A function was wrapped with cache(func, safe=safe) and a ValueCache was
\* made; nothing was called yet.
InitCA ==
    /\ _values = <<>>
    /\ _counter = 0
    /\ poRes = [res |-> "none", dup |-> FALSE, contra |-> FALSE]
    /\ delRes = NoDelRes
    /\ IdleRS
    /\ IdleNS
    /\ \E safe \in BOOLEAN : fcache = NewCache(safe)
    /\ vcache = NewValueCache
    /\ bypassed = {}
    /\ caOps = 0
    /\ caRes = NoCaRes
    /\ storedUnder = NoWriters
    /\ IdleUT

NextCA ==
    \/ \E a \in Args : CacheCall(a)
    \/ \E k \in Keys : ValueCacheGet(k)
    \/ \E k \in Keys, v \in Stored : ValueCacheSet(k, v)
    \/ \E k \in Keys : ValueCacheDel(k)
    \/ \E op \in {"clear", "disable", "enable"}, on \in {"f", "v", "pool"} :
           Control(op, on)

SpecCA == InitCA /\ [][NextCA]_vars

\* C16 as stated: a call of a function wrapped in safe mode with an
\* argument that is not hashable runs the function exactly once, hands its
\* result or error to the caller and leaves the cache as it was.
C16_KeylessCallOnce ==
    (caRes.op = "call" /\ caRes.before.safe /\ ~ArgHashable(caRes.arg)) =>
        /\ caRes.calls = 1
        /\ caRes.out = Func(caRes.arg)
        /\ fcache = caRes.before

\* C20: while a cache is disabled a call of the wrapped function runs the
\* function and leaves the store and the counters of the cache as they
\* are, a lookup in a ValueCache raises KeyError and a store into it does
\* nothing, both without a change of the cache; cache_disable and
\* cache_enable, on one cache or on the pool, change nothing but the flag;
\* and an entry that was asked for while its cache was disabled is served
\* from the store, counted as a hit, once the cache is enabled again.
C20_DisableKeepsEntries ==
    /\ (caRes.op = "call" /\ caRes.before.disabled) =>
          /\ fcache = caRes.before
          /\ caRes.calls >= 1
          /\ caRes.out = Func(caRes.arg)
    /\ (caRes.op \in {"get", "set"} /\ caRes.vbefore._disabled) =>
          /\ vcache = caRes.vbefore
          /\ caRes.op = "get" => caRes.out = "KeyError"
    /\ caRes.op \in {"disable", "enable"} =>
          /\ fcache = [caRes.before EXCEPT !.disabled =
                          IF caRes.arg = "v" THEN @ ELSE caRes.op = "disable"]
          /\ vcache = [caRes.vbefore EXCEPT !._disabled =
                          IF caRes.arg = "f" THEN @ ELSE caRes.op = "disable"]
    /\ (/\ caRes.op = "call" /\ ~caRes.before.disabled
        /\ <<"f", caRes.arg>> \in bypassed) =>
          /\ caRes.calls = 0
          /\ caRes.out = caRes.before.store[caRes.arg]
          /\ caRes.out # NoResult
          /\ fcache = [caRes.before EXCEPT !.hits = @ + 1]
    /\ (/\ caRes.op = "get" /\ ~caRes.vbefore._disabled
        /\ <<"v", MakeKey(caRes.key)>> \in bypassed) =>
          /\ caRes.out = caRes.vbefore._cache[MakeKey(caRes.key)]
          /\ caRes.out # NoResult
          /\ vcache = [caRes.vbefore EXCEPT !._hits = @ + 1]

\* A result stored before the pool or the cache was disabled, asked for
\* while it was disabled, has just been served as a hit.
C20_Witness ==
    /\ caRes.op = "call"
    /\ ~caRes.before.disabled
    /\ <<"f", caRes.arg>> \in bypassed
    /\ caRes.calls = 0
    /\ fcache.hits = 1


\* C28: a lookup of key k in a ValueCache returns only a value that was
\* stored under a key equal to k; unequal keys have separate entries, also
\* when their hash values are the same.
C28_LookupByEqualKey ==
    (caRes.op = "get" /\ caRes.out \in Stored) =>
        storedUnder[MakeKey(caRes.key)] = caRes.key

\* ------------------------------------ SchemaRegistry.match, raising schemas
MaxSchemas == 3

\* What schema.match(value) does for the value that is matched: it returns
\* true or false, or raises.
MatchOutcomes == {"yes", "no", "TypeError", "ValueError"}

\* A registered schema class: what its match does and whether it is a
\* subclass of WrapperSchema.
SchemaClass(id, outcome, wrapper) ==
    [id |-> id, match |-> outcome, wrapper |-> wrapper]

\* Mutant of RegistryMatchFrom: without the `except TypeError` clause.
RECURSIVE RegistryMatchFromNoExcept(_, _, _)
RegistryMatchFromNoExcept(reg, i, schemas) ==
    IF i > Len(reg) THEN [res |-> "error", sel |-> <<>>]
    ELSE CASE reg[i].match = "yes" ->
                 IF reg[i].wrapper
                 THEN RegistryMatchFromNoExcept(reg, i + 1,
                                                Append(schemas, reg[i].id))
                 ELSE [res |-> "ok", sel |-> Append(schemas, reg[i].id)]
           [] reg[i].match = "no" ->
                 RegistryMatchFromNoExcept(reg, i + 1, schemas)
           [] OTHER -> [res |-> reg[i].match, sel |-> <<>>]

\* SchemaRegistry.match: the loop over self.priority from position i on.
\* res is "ok" (sel is returned), "error" (self.error is raised) or the
\* error of a schema's match that reaches the caller.
RECURSIVE RegistryMatchFrom(_, _, _)
RegistryMatchFrom(reg, i, schemas) ==
    IF i > Len(reg) THEN [res |-> "error", sel |-> <<>>]
    ELSE CASE reg[i].match = "yes" ->
                 IF reg[i].wrapper
                 THEN RegistryMatchFrom(reg, i + 1, Append(schemas, reg[i].id))
                 ELSE [res |-> "ok", sel |-> Append(schemas, reg[i].id)]
           [] reg[i].match = "no" -> RegistryMatchFrom(reg, i + 1, schemas)
           [] reg[i].match = "TypeError" ->
                 RegistryMatchFrom(reg, i + 1, schemas)
           [] OTHER -> [res |-> reg[i].match, sel |-> <<>>]

\* SchemaRegistry.register(schema) with a priority that puts the schema at
\* position pos of the order.
RegisterSchema(outcome, wrapper, pos) ==
    /\ Len(registry) < MaxSchemas
    /\ pos <= Len(registry)
    /\ registry' = SeqInsertAt(registry, pos,
                               SchemaClass(Len(registry) + 1, outcome, wrapper))
    /\ matchRes' = NoMatchRes
    /\ UNCHANGED <<varsPO, varsRS, varsNS, varsCA, varsSD, varsIT, varsNR, varsIG>>

\* SchemaRegistry.match(value)
MatchValue ==
    /\ LET r == RegistryMatchFrom(registry, 1, <<>>)
       IN matchRes' = [op |-> "match", res |-> r.res, sel |-> r.sel,
                       reg |-> registry]
    /\ UNCHANGED registry
    /\ UNCHANGED <<varsPO, varsRS, varsNS, varsCA, varsSD, varsIT, varsNR, varsIG>>

InitMT == InitPO

NextMT ==
    \/ \E outcome \in MatchOutcomes, wrapper \in BOOLEAN,
          pos \in 0..MaxSchemas : RegisterSchema(outcome, wrapper, pos)
    \/ MatchValue

SpecMT == InitMT /\ [][NextMT]_vars

Raises(schema) == schema.match \notin {"yes", "no"}

RaisesTypeError(schema) == schema.match = "TypeError"

\* The order without the schema classes whose match raises.
WithoutRaising(reg) ==
    LET Keep(schema) == ~Raises(schema) IN SelectSeq(reg, Keep)

\* The order without the schema classes whose match raises TypeError.
WithoutTypeError(reg) ==
    LET Keep(schema) == ~RaisesTypeError(schema) IN SelectSeq(reg, Keep)

\* C24 as stated: a schema whose match raises, whatever the error, is
\* treated as not matching: no such error reaches the caller of
\* registry.match and the outcome is the one of the order without the
\* raising schemas.
C24_AnyErrorSkipped ==
    matchRes.op = "match" =>
        /\ matchRes.res \in {"ok", "error"}
        /\ [res |-> matchRes.res, sel |-> matchRes.sel]
               = RegistryMatchFrom(WithoutRaising(matchRes.reg), 1, <<>>)

\* The position of the first schema whose match raises another error than
\* TypeError and that the loop reaches, 0 if there is none.
FirstFatal(reg) ==
    LET fatal == {i \in 1..Len(reg) :
                     /\ Raises(reg[i]) /\ ~RaisesTypeError(reg[i])
                     /\ \A j \in 1..(i - 1) :
                            reg[j].match = "yes" => reg[j].wrapper}
    IN IF fatal = {} THEN 0
       ELSE CHOOSE i \in fatal : \A j \in fatal : i <= j

\* C24 amended: a schema whose match raises TypeError is treated as not
\* matching - the TypeError does not reach the caller, the schema is not in
\* the selection and matching goes on with the next schema; an error of
\* another kind raised by a match that is reached ends the matching and
\* reaches the caller.
C24_TypeErrorSkipped ==
    matchRes.op = "match" =>
        /\ matchRes.res # "TypeError"
        /\ \A k \in 1..Len(matchRes.sel) :
               \E i \in 1..Len(matchRes.reg) :
                   /\ matchRes.reg[i].id = matchRes.sel[k]
                   /\ matchRes.reg[i].match = "yes"
        /\ IF FirstFatal(matchRes.reg) # 0
           THEN matchRes.res = matchRes.reg[FirstFatal(matchRes.reg)].match
           ELSE [res |-> matchRes.res, sel |-> matchRes.sel]
                    = RegistryMatchFrom(
                          WithoutTypeError(matchRes.reg), 1, <<>>)

\* A match went past a schema that raised TypeError and a wrapper and
\* returned both the wrapper and the schema behind them.
C24_Witness ==
    /\ matchRes.op = "match"
    /\ matchRes.res = "ok"
    /\ Len(matchRes.sel) = 2
    /\ \E i \in 1..Len(matchRes.reg) :
           /\ matchRes.reg[i].match = "TypeError"
           /\ \E j \in (i + 1)..Len(matchRes.reg) :
                  matchRes.reg[j].id = matchRes.sel[2]

\* ------------------------------------------------------- SafeDict (utils)
MaxDictOps == 5

\* The keys: two hashable ones and two unhashable ones (lists, say), all
\* unequal. The values of the dict play no part in its keys and order and
\* are left out.
DictKeys == {"h1", "h2", "u1", "u2"}

\* Whether hash(key) succeeds.
KeyHashable(key) == key \in {"h1", "h2"}

IndexOf(s, e) == CHOOSE i \in 1..Len(s) : s[i] = e /\ \A j \in 1..(i - 1) : s[j] # e

Has(s, e) == \E i \in 1..Len(s) : s[i] = e

\* `[(True, i) for i in range(len(self._hashable_cache))]`
HashableOrder(hc) == [i \in 1..Len(hc) |-> <<TRUE, i - 1>>]

\* SafeDict.__setitem__: the three fields afterwards.
SafeDictSet(hc, uc, order, key) ==
    IF KeyHashable(key)
    THEN LET prev_len == Len(hc)
             after == IF Has(hc, key) THEN hc ELSE Append(hc, key)
         IN [hc |-> after, uc |-> uc,
             order |-> IF uc # <<>> /\ Len(after) > prev_len
                       THEN Append(order, <<TRUE, prev_len>>)
                       ELSE order]
    \* the assignment to the dict raises TypeError; the loop that replaces
    \* the value of an equal key has no break, so its else clause runs
    \* whether the key was found or not
    ELSE LET base == IF uc = <<>> THEN HashableOrder(hc) ELSE order
         IN [hc |-> hc, uc |-> Append(uc, key),
             order |-> Append(base, <<FALSE, Len(uc)>>)]

\* The position in order of the first pair (hashable, idx), 0 if none.
OrderIndex(order, hashable, idx) ==
    IF \E i \in 1..Len(order) : order[i] = <<hashable, idx>>
    THEN CHOOSE i \in 1..Len(order) :
             /\ order[i] = <<hashable, idx>>
             /\ \A j \in 1..(i - 1) : order[j] # <<hashable, idx>>
    ELSE 0

PopOrder(order, hashable, idx) ==
    IF OrderIndex(order, hashable, idx) = 0 THEN order
    ELSE SeqRemoveAt(order, OrderIndex(order, hashable, idx))

\* The position, counted from the end and starting at 1, of the last pair
\* of the unhashable cache whose key equals key.
FromEnd(uc, key) ==
    CHOOSE i \in 1..Len(uc) :
        /\ uc[Len(uc) + 1 - i] = key
        /\ \A j \in 1..(i - 1) : uc[Len(uc) + 1 - j] # key

\* SafeDict.__delitem__: the three fields afterwards; res is "KeyError"
\* when the key is not found.
SafeDictDel(hc, uc, order, key) ==
    IF KeyHashable(key)
    THEN IF Has(hc, key)
         THEN [hc |-> SeqRemoveAt(hc, IndexOf(hc, key)), uc |-> uc,
               order |-> IF uc # <<>>
                         THEN PopOrder(order, TRUE, IndexOf(hc, key) - 1)
                         ELSE order,
               res |-> "ok"]
         ELSE [hc |-> hc, uc |-> uc, order |-> order, res |-> "KeyError"]
    ELSE IF Has(uc, key)
         THEN [hc |-> hc,
               uc |-> SeqRemoveAt(uc, Len(uc) + 1 - FromEnd(uc, key)),
               order |-> PopOrder(order, FALSE, FromEnd(uc, key)),
               res |-> "ok"]
         ELSE [hc |-> hc, uc |-> uc, order |-> order, res |-> "KeyError"]

\* SafeDict._ordered_iter(reverse=False) run to its end: the keys it
\* yields; err says that an index of _order was out of range (IndexError).
SafeDictIter(hc, uc, order) ==
    IF uc = <<>> THEN [err |-> FALSE, keys |-> hc]
    ELSE LET InRange(i) == IF order[i][1] THEN order[i][2] < Len(hc)
                           ELSE order[i][2] < Len(uc)
             bad == {i \in 1..Len(order) : ~InRange(i)}
             n == IF bad = {} THEN Len(order)
                  ELSE (CHOOSE i \in bad : \A j \in bad : i <= j) - 1
         IN [err |-> bad # {},
             keys |-> [i \in 1..n |-> IF order[i][1]
                                      THEN hc[order[i][2] + 1]
                                      ELSE uc[order[i][2] + 1]]]

\* SafeDict.__len__
SafeDictLen(hc, uc) == Len(hc) + Len(uc)

\* d[key] = value
SetItem(key) ==
    /\ sdRes.ops < MaxDictOps
    /\ LET r == SafeDictSet(_hashable_cache, _unhashable_cache, _order, key)
       IN /\ _hashable_cache' = r.hc
          /\ _unhashable_cache' = r.uc
          /\ _order' = r.order
    /\ stored' = IF Has(stored, key) THEN stored ELSE Append(stored, key)
    /\ sdRes' = [op |-> "set", key |-> key, res |-> "ok",
                 ops |-> sdRes.ops + 1]
    /\ UNCHANGED <<varsPO, varsRS, varsNS, varsCA, varsMT, varsIT, varsNR, varsIG>>

\* del d[key]
DeleteItem(key) ==
    /\ sdRes.ops < MaxDictOps
    /\ LET r == SafeDictDel(_hashable_cache, _unhashable_cache, _order, key)
       IN /\ _hashable_cache' = r.hc
          /\ _unhashable_cache' = r.uc
          /\ _order' = r.order
          /\ sdRes' = [op |-> "del", key |-> key, res |-> r.res,
                       ops |-> sdRes.ops + 1]
    /\ stored' = IF Has(stored, key)
                 THEN SeqRemoveAt(stored, IndexOf(stored, key)) ELSE stored
    /\ UNCHANGED <<varsPO, varsRS, varsNS, varsCA, varsMT, varsIT, varsNR, varsIG>>

InitSD == InitPO

NextSD ==
    \/ \E key \in DictKeys : SetItem(key)
    \/ \E key \in DictKeys : DeleteItem(key)

SpecSD == InitSD /\ [][NextSD]_vars

\* C25: after any sequence of set and delete operations the length of the
\* SafeDict is the number of distinct keys stored in it, and iteration,
\* without error, yields every stored key once, in the order in which the
\* keys were first inserted.
C25_OrderedDict ==
    /\ SafeDictLen(_hashable_cache, _unhashable_cache) = Len(stored)
    /\ SafeDictIter(_hashable_cache, _unhashable_cache, _order)
           = [err |-> FALSE, keys |-> stored]

\* ------------------------------------------- IterableFromIterator (utils)
NumItems == 3
MaxIterations == 3

\* The wrapped iterator yields the items 1..NumItems, in this order.
Items == 1..NumItems

\* A generator made by __iter__ that has not run yet: it is in
\* `yield from self._cache` at index 0 of the list and has yielded nothing.
NewIteration == [pc |-> "cache", index |-> 0, out |-> <<>>]

\* iter(it): a generator object is made; its body runs with the first next.
Iterate ==
    /\ Len(iterations) < MaxIterations
    /\ iterations' = Append(iterations, NewIteration)
    /\ UNCHANGED <<_iter, _cache>>
    /\ UNCHANGED <<varsPO, varsRS, varsNS, varsCA, varsMT, varsSD, varsNR, varsIG>>

\* next(g) for the g-th generator: it runs to its next yield or to its end.
\* The list iterator of `yield from self._cache` yields the item at its
\* index while the index is within the list as it is now; afterwards the
\* generator takes the next item from self._iter, appends it to the cache
\* and yields it.
Advance(g) ==
    /\ g <= Len(iterations)
    /\ iterations[g].pc # "done"
    /\ LET it == iterations[g]
       IN IF it.pc = "cache" /\ it.index < Len(_cache)
          THEN /\ iterations' = [iterations EXCEPT
                      ![g].index = it.index + 1,
                      ![g].out = Append(it.out, _cache[it.index + 1])]
               /\ UNCHANGED <<_iter, _cache>>
          ELSE IF _iter < NumItems
          THEN /\ _iter' = _iter + 1
               /\ _cache' = Append(_cache, _iter + 1)
               /\ iterations' = [iterations EXCEPT
                      ![g].pc = "iter",
                      ![g].out = Append(it.out, _iter + 1)]
          ELSE /\ iterations' = [iterations EXCEPT ![g].pc = "done"]
               /\ UNCHANGED <<_iter, _cache>>
    /\ UNCHANGED <<varsPO, varsRS, varsNS, varsCA, varsMT, varsSD, varsNR, varsIG>>

InitIT == InitPO

NextIT ==
    \/ Iterate
    \/ \E g \in 1..MaxIterations : Advance(g)

SpecIT == InitIT /\ [][NextIT]_vars

\* C26: every iteration over an IterableFromIterator that has run to its
\* end has yielded all items of the wrapped iterator, each once and in the
\* original order, however the iterations over the object are interleaved.
C26_EveryIterationComplete ==
    \A g \in 1..Len(iterations) :
        iterations[g].pc = "done" =>
            iterations[g].out = [i \in 1..NumItems |-> i]

\* ------------------------------------------------ cache(binding='ignore')
MaxBoundCalls == 3

\* func(self, arg): the wrapped function is pure; its result names the
\* receiver and the argument it was called with.
BoundFunc(self, arg) == <<self, arg>>

\* delegating_func(self, arg) up to the call of cached_func: the cache is
\* enabled and the receiver is put into the shared cell.
Delegate(t, self, arg) ==
    /\ running[t].pc = "returned"
    /\ igRes.calls < MaxBoundCalls
    /\ _self' = self
    /\ running' = [running EXCEPT ![t] =
           [pc |-> "lookup", self |-> self, arg |-> arg, out |-> <<>>]]
    /\ igRes' = [NoIgRes EXCEPT !.calls = igRes.calls + 1]
    /\ UNCHANGED lru
    /\ UNCHANGED <<varsPO, varsRS, varsNS, varsCA, varsMT, varsSD, varsIT,
                   varsNR>>

\* cached_func(arg): the lookup of the lru_cache wrapper; the key is made
\* of the argument alone. A hit returns the stored result; after a miss
\* the wrapper calls the function it wraps.
CachedLookup(t) ==
    /\ running[t].pc = "lookup"
    /\ running' = [running EXCEPT ![t] =
           IF lru[running[t].arg] # NoResult
           THEN [@ EXCEPT !.pc = "returned", !.out = lru[running[t].arg]]
           ELSE [@ EXCEPT !.pc = "miss"]]
    /\ igRes' = [NoIgRes EXCEPT !.calls = igRes.calls]
    /\ UNCHANGED <<_self, lru>>
    /\ UNCHANGED <<varsPO, varsRS, varsNS, varsCA, varsMT, varsSD, varsIT,
                   varsNR>>

\* The body of cached_func after a miss: `func(_self, arg)` with the
\* receiver that is in the cell now; the result is stored and returned.
CachedFunc(t) ==
    /\ running[t].pc = "miss"
    /\ LET out == BoundFunc(_self, running[t].arg)
       IN /\ lru' = [lru EXCEPT ![running[t].arg] = out]
          /\ running' = [running EXCEPT ![t] =
                 [@ EXCEPT !.pc = "returned", !.out = out]]
    /\ igRes' = [op |-> "func", t |-> t, passed |-> running[t].self,
                 received |-> _self, arg |-> running[t].arg,
                 calls |-> igRes.calls]
    /\ UNCHANGED _self
    /\ UNCHANGED <<varsPO, varsRS, varsNS, varsCA, varsMT, varsSD, varsIT,
                   varsNR>>

InitIG == InitPO

NextIG ==
    \/ \E t \in Threads, self \in Receivers, arg \in BoundArgs :
           Delegate(t, self, arg)
    \/ \E t \in Threads : CachedLookup(t)
    \/ \E t \in Threads : CachedFunc(t)

SpecIG == InitIG /\ [][NextIG]_vars

\* C30: whenever the function wrapped with ignore-first binding is invoked
\* after a miss, it receives the receiver that was passed by the call that
\* caused the miss, also when two threads call it with different
\* receivers at the same time.
C30_ReceiverForwarded ==
    igRes.op = "func" => igRes.received = igRes.passed
====
